---- MODULE Spec2Model ----
(***************************************************************************)
(* Symmetry-axis constraint solver of the radial-path editor               *)
(* (src/src/geometry/axisConstraint.ts) and the drag handler that calls    *)
(* it.                                                                     *)
(*                                                                         *)
(* Numbers.  A JavaScript number is modelled as a binary floating-point    *)
(* value with SigBits significand bits over a smallest step (quantum) of   *)
(* one unit.  The unit of an angle is 1/AngleScale radian, the unit of a   *)
(* coordinate is 1/CoordScale pixel, the unit of a sine or cosine is       *)
(* 1/TrigScale.  Every arithmetic operation rounds its exact result to the *)
(* nearest representable value, ties to even, as IEEE-754 does.  With      *)
(* SigBits = 14 a value of magnitude 2^14 units (1.6384 rad) or more is a  *)
(* multiple of 2 units, so a sum that lands next to PI is rounded, as a    *)
(* double next to Math.PI is; smaller values are exact.                    *)
(***************************************************************************)
EXTENDS Integers, Sequences, FiniteSets, TLC

VARIABLES
  config,    \* the MirrorConfig last passed to calculateConstraintAxes
  axes,      \* the list that call returned; <<>> before the first call
  axesArg,   \* the axes array the current drag passes on every move
  deltaArg,  \* the delta of the last call of constrainToNearestAxis
  result,    \* the point that call returned
  pc,        \* "idle", "stale" (config changed, axes not yet recomputed),
             \* "dragging" (no move yet), "pending" (delta received), "moved"
  \* the debug store (src/src/stores/debugStore.ts)
  debug,            \* the DebugState: eight visibility flags, two profiling flags
  storage,          \* what persist keeps under 'serpentine-debug-settings'
  profilerEnabled,  \* the profiler's own switch (enableProfiler / disableProfiler)
  profilingData,    \* the number of measures the profiler holds
  debugCall,        \* the operation of the store or the profiler that ran last
  \* the grid renderer (src/src/components/Canvas/renderers/GridRenderer.ts)
  tileCache,        \* the Map of cached tiles, in insertion order
  now,              \* what performance.now() returns
  gridCall,         \* the last call that went as far as the cache, and its key
  \* the canvas component (src/src/components/Canvas/Canvas.tsx)
  canvasRef,           \* TRUE while canvasRef.current is the mounted canvas
  showGrid,            \* the prop of the current render closure
  isolatePath,         \* the prop of the current render closure
  lastRenderErrorRef,  \* {} for null, {message} for a remembered message
  firstRenderDoneRef,  \* firstRenderDoneRef.current
  animationFrames,     \* the closures of the callbacks render has passed to
                       \* requestAnimationFrame and that have not run yet
  renderCall,          \* the last call of render and what it did
  runReports,          \* the calls of reportError in the current run of
                       \* consecutive renders that threw the same message
  ctx,                 \* the 2D context of the canvas: the stack of saved
                       \* states and the current transform
  \* the path geometry called on its own (spec.md 4.2, 4.3)
  geometryCall,        \* the last call of SegmentFactory or expand: its
                       \* arguments and what it returned
  \* the document and the components that show its path
  shapes,              \* the circles of the document, in the order added
  shapeOrder,          \* the traversal order: ids, known or not
  closedPath,          \* the topology flags of the document
  useStartPoint,
  useEndPoint,
  documentMirror,      \* the mirrorConfig of the document, as PathInfo
                       \* reads it
  pathInfoView,        \* the last render of PathInfo: the pathMode it
                       \* derived and whether it shows the mode button
  toolbarView,         \* the last render of the Toolbar: the disabled
                       \* attribute of the start and of the end toggle
  \* the dropdown menus of the Toolbar
  toolbarMounted,      \* TRUE while the Toolbar is mounted
  openMenu,            \* the state openMenu: {} for null, {menu} for a menu
  menuEffects,         \* for each DropdownMenu: the isOpen it was rendered
                       \* with, whether the timer of its effect waits, and
                       \* whether its mousedown and its keydown listener are
                       \* registered on the document
  menuCall             \* the handler that ran last, the menus it was about
                       \* and the openMenu it found


(***************************************************************************)
(* Bounds of the model.                                                    *)
(***************************************************************************)
\* significand width of the modelled floating-point format
SigBits == 14
\* planeCount ranges over 0..MaxPlaneCount
MaxPlaneCount == 3
\* delta.x and delta.y range over -MaxDelta..MaxDelta pixels
MaxDelta == 2
\* performance.now() ranges over 0..MaxClock
MaxClock == 1
\* the stack of saved states of the 2D context holds at most MaxSaveDepth
\* entries between two calls of render
MaxSaveDepth == 2

(***************************************************************************)
(* Units.                                                                  *)
(***************************************************************************)
\* angle units per radian: the tolerance 0.001 rad is a whole number of them
AngleScale == 10000
\* coordinate units per pixel
CoordScale == 1000
\* units of a sine or cosine value per 1.0
TrigScale == 10000
\* Math.PI in angle units
PI == 31416
\* the deduplication tolerance 0.001 rad in angle units
tolerance == 10

(***************************************************************************)
(* Floating-point arithmetic.                                              *)
(***************************************************************************)
Abs(x) == IF x < 0 THEN -x ELSE x

Sign(x) == IF x < 0 THEN -1 ELSE 1

RECURSIVE Pow2(_)
Pow2(n) == IF n = 0 THEN 1 ELSE 2 * Pow2(n - 1)

\* exact quotient a/b (b > 0) rounded to the nearest integer, ties to even
RoundDiv(a, b) ==
  LET m == Abs(a)
      q == m \div b
      r == m - q * b
      n == IF 2 * r < b THEN q
           ELSE IF 2 * r > b THEN q + 1
           ELSE IF q % 2 = 0 THEN q ELSE q + 1
  IN Sign(a) * n

\* magnitudes below this are whole multiples of the quantum, all representable
SignificandLimit == Pow2(SigBits)

\* the spacing of representable values at magnitude m
RECURSIVE UlpFrom(_, _)
UlpFrom(m, u) == IF m \div u < SignificandLimit THEN u ELSE UlpFrom(m, 2 * u)

Ulp(x) == UlpFrom(Abs(x), 1)

\* round-to-nearest-even onto the representable values
Fl(x) ==
  IF Abs(x) < SignificandLimit THEN x
  ELSE LET u == Ulp(x) IN u * RoundDiv(x, u)

Add(a, b) == Fl(a + b)

Sub(a, b) == Fl(a - b)

Mul(a, b) == Fl(a * b)

Div(a, b) == Fl(RoundDiv(a, b))

\* (n / 2) * a for an integer n: the product (i + 0.5) * a with n = 2i + 1
MulHalves(n, a) == Fl(RoundDiv(n * a, 2))

\* JavaScript's %: the remainder has the sign of the dividend and is exact
Rem(a, b) == IF a >= 0 THEN a % b ELSE -((-a) % b)

ListMin(a, b, c) ==
  LET ab == IF a < b THEN a ELSE b
  IN IF ab < c THEN ab ELSE c

(***************************************************************************)
(* calculateConstraintAxes                                                 *)
(***************************************************************************)
\* a variant that pushes the horizontal axis alone
cardinalAxes_horizontalOnly == <<0>>

\* axes.push(0, Math.PI / 2)
cardinalAxes == <<0, Div(PI, 2)>>

angleStep(mirrorConfig) == Div(PI, mirrorConfig.planeCount)

\* the i-th mirror plane, i in 0..planeCount-1
planeAngle(mirrorConfig, i) ==
  Add(mirrorConfig.startAngle, Mul(i, angleStep(mirrorConfig)))

\* a variant that puts the bisector a whole step, not half a step, after plane i
bisectorAngle_wholeStep(mirrorConfig, i) ==
  Add(mirrorConfig.startAngle, Mul(i + 1, angleStep(mirrorConfig)))

\* the bisector between plane i and plane i+1
bisectorAngle(mirrorConfig, i) ==
  Add(mirrorConfig.startAngle, MulHalves(2 * i + 1, angleStep(mirrorConfig)))

\* the array before normalisation: cardinals, then planes, then bisectors
pushedAxes(mirrorConfig) ==
  LET N == mirrorConfig.planeCount
  IN cardinalAxes
       \o [k \in 1..N |-> planeAngle(mirrorConfig, k - 1)]
       \o [k \in 1..N |-> bisectorAngle(mirrorConfig, k - 1)]

\* the callback of map: fold an angle into [0, pi)
normalizeAxis(angle) ==
  LET normalized == Rem(angle, PI)
  IN IF normalized < 0 THEN Add(normalized, PI) ELSE normalized

\* self.findIndex(a => Math.abs(a - angle) < tolerance), 1-based; 0 if none
findIndexWithinTolerance(self, angle) ==
  LET hits == {k \in 1..Len(self) : Abs(Sub(self[k], angle)) < tolerance}
  IN IF hits = {} THEN 0
     ELSE CHOOSE k \in hits : \A j \in hits : k <= j

\* a variant that keeps the last, not the first, of each group within the tolerance
keepAxis_keepLast(self, index) ==
  \A k \in (index + 1)..Len(self) : ~(Abs(Sub(self[k], self[index])) < tolerance)

\* the callback of filter: keep the first of each group within the tolerance
keepAxis(self, index) == findIndexWithinTolerance(self, self[index]) = index

RECURSIVE filterAxes(_, _)
filterAxes(self, index) ==
  IF index > Len(self) THEN <<>>
  ELSE (IF keepAxis(self, index) THEN <<self[index]>> ELSE <<>>)
         \o filterAxes(self, index + 1)

\* insert x into the ascending sequence s, after the entries equal to it
RECURSIVE insertAscending(_, _)
insertAscending(s, x) ==
  IF s = <<>> THEN <<x>>
  ELSE IF x < Head(s) THEN <<x>> \o s
  ELSE <<Head(s)>> \o insertAscending(Tail(s), x)

\* a variant that returns the filtered array unsorted
sortAscending_unsorted(s) == s

\* .sort((a, b) => a - b)
RECURSIVE sortAscending(_)
sortAscending(s) ==
  IF s = <<>> THEN <<>>
  ELSE insertAscending(sortAscending(SubSeq(s, 1, Len(s) - 1)), s[Len(s)])

calculateConstraintAxes(mirrorConfig) ==
  IF mirrorConfig.planeCount = 0
  THEN cardinalAxes
  ELSE LET pushed == pushedAxes(mirrorConfig)
           mapped == [k \in 1..Len(pushed) |-> normalizeAxis(pushed[k])]
       IN sortAscending(filterAxes(mapped, 1))

(***************************************************************************)
(* Math.sin, Math.cos, Math.atan2, Math.sqrt                               *)
(***************************************************************************)
\* TrigScale * cos(x / AngleScale) for x in 0..PI/4, by the Taylor series
cosSeries(x) ==
  LET x2 == RoundDiv(x * x, AngleScale)
      t4 == TrigScale - RoundDiv(x2, 56)
      t3 == TrigScale - RoundDiv(RoundDiv(x2 * t4, TrigScale), 30)
      t2 == TrigScale - RoundDiv(RoundDiv(x2 * t3, TrigScale), 12)
  IN TrigScale - RoundDiv(RoundDiv(x2 * t2, TrigScale), 2)

\* TrigScale * sin(x / AngleScale) for x in 0..PI/4, by the Taylor series
sinSeries(x) ==
  LET x2 == RoundDiv(x * x, AngleScale)
      t3 == TrigScale - RoundDiv(x2, 42)
      t2 == TrigScale - RoundDiv(RoundDiv(x2 * t3, TrigScale), 20)
      t1 == TrigScale - RoundDiv(RoundDiv(x2 * t2, TrigScale), 6)
  IN RoundDiv(x * t1, AngleScale)

\* the sine of an angle of the first quadrant, x in 0..PI/2
sinQuadrant(x) ==
  IF 4 * x <= PI THEN sinSeries(x) ELSE cosSeries(PI \div 2 - x)

MathSin(angle) ==
  LET r == angle % (2 * PI)
  IN IF 2 * r <= PI THEN sinQuadrant(r)
     ELSE IF r <= PI THEN sinQuadrant(PI - r)
     ELSE IF 2 * r <= 3 * PI THEN -sinQuadrant(r - PI)
     ELSE -sinQuadrant(2 * PI - r)

MathCos(angle) == MathSin(angle + PI \div 2)

\* AngleScale * atan(t / TrigScale) for t up to tan(pi/8), by the Taylor series
atanSeries(t) ==
  LET t2 == RoundDiv(t * t, TrigScale)
      p4 == TrigScale - RoundDiv(7 * t2, 9)
      p3 == TrigScale - RoundDiv(RoundDiv(5 * t2 * p4, TrigScale), 7)
      p2 == TrigScale - RoundDiv(RoundDiv(3 * t2 * p3, TrigScale), 5)
      p1 == TrigScale - RoundDiv(RoundDiv(t2 * p2, TrigScale), 3)
  IN RoundDiv(t * p1, TrigScale)

\* atan(v / u) for 0 <= v <= u, u > 0: an angle in 0..PI/4;
\* above tan(pi/8) by atan(t) = pi/4 - atan((1 - t) / (1 + t))
atanOctant(v, u) ==
  LET t == RoundDiv(v * TrigScale, u)
  IN IF t <= 4142 THEN atanSeries(t)
     ELSE PI \div 4 - atanSeries(RoundDiv((u - v) * TrigScale, u + v))

\* atan2 for x >= 0, y >= 0, not both 0
atanQuadrant(y, x) ==
  IF y <= x THEN atanOctant(y, x) ELSE PI \div 2 - atanOctant(x, y)

\* Math.atan2(y, x) in (-pi, pi]; atan2(0, 0) = 0
MathAtan2(y, x) ==
  IF x = 0 /\ y = 0 THEN 0
  ELSE IF y >= 0
       THEN (IF x >= 0 THEN atanQuadrant(y, x) ELSE Fl(PI - atanQuadrant(y, -x)))
       ELSE (IF x >= 0 THEN -atanQuadrant(-y, x) ELSE Fl(atanQuadrant(-y, -x) - PI))

\* the largest r in lo..hi with r*r <= n
RECURSIVE sqrtBisect(_, _, _)
sqrtBisect(n, lo, hi) ==
  IF lo >= hi THEN lo
  ELSE LET mid == (lo + hi + 1) \div 2
       IN IF mid * mid <= n THEN sqrtBisect(n, mid, hi)
          ELSE sqrtBisect(n, lo, mid - 1)

\* Math.sqrt(n) rounded to the nearest unit
MathSqrt(n) ==
  LET r == sqrtBisect(n, 0, Pow2(15))
  IN Fl(IF n - r * r <= r THEN r ELSE r + 1)

\* a * t / TrigScale: the product of a number with a sine or cosine
MulTrig(a, t) == Fl(RoundDiv(a * t, TrigScale))

(***************************************************************************)
(* constrainToNearestAxis                                                  *)
(***************************************************************************)
\* the value of arithmetic on undefined: constraintAxes[0] of an empty array
NaN == -Pow2(30)

NaNPoint == [x |-> NaN, y |-> NaN]

\* let normalizedMovementAngle = movementAngle % Math.PI; if (< 0) += Math.PI
normalizeMovementAngle(movementAngle) ==
  LET normalized == Rem(movementAngle, PI)
  IN IF normalized < 0 THEN Add(normalized, PI) ELSE normalized

\* a variant that compares the direct difference only
axisDiff_directOnly(normalizedMovementAngle, axis) ==
  Abs(Sub(normalizedMovementAngle, axis))

\* Math.min(diff1, diff2, diff3) of the loop body
axisDiff(normalizedMovementAngle, axis) ==
  LET diff1 == Abs(Sub(normalizedMovementAngle, axis))
      diff2 == Abs(Add(Sub(normalizedMovementAngle, axis), PI))
      diff3 == Abs(Sub(Sub(normalizedMovementAngle, axis), PI))
  IN ListMin(diff1, diff2, diff3)

\* the loop over constraintAxes from index k on, with its two locals
RECURSIVE closestAxisLoop(_, _, _, _, _)
closestAxisLoop(normalizedMovementAngle, constraintAxes, k, closestAxis, minDiff) ==
  IF k > Len(constraintAxes) THEN closestAxis
  ELSE LET axis == constraintAxes[k]
           diff == axisDiff(normalizedMovementAngle, axis)
       IN IF diff < minDiff
          THEN closestAxisLoop(normalizedMovementAngle, constraintAxes, k + 1, axis, diff)
          ELSE closestAxisLoop(normalizedMovementAngle, constraintAxes, k + 1,
                               closestAxis, minDiff)

\* the closest constraint axis of a non-empty constraintAxes
findClosestAxis(normalizedMovementAngle, constraintAxes) ==
  closestAxisLoop(normalizedMovementAngle, constraintAxes, 1, constraintAxes[1],
                  Abs(Sub(normalizedMovementAngle, constraintAxes[1])))

\* a variant that scales the axis direction by |x| + |y| in place of the dot product
projectOntoAxis_taxicab(delta, closestAxis) ==
  LET magnitude == Add(Abs(delta.x), Abs(delta.y))
  IN [x |-> MulTrig(magnitude, MathCos(closestAxis)),
      y |-> MulTrig(magnitude, MathSin(closestAxis))]

\* a variant that rotates delta onto closestAxis, keeping its magnitude
projectOntoAxis_rotation(delta, closestAxis) ==
  LET magnitude == MathSqrt(Add(Mul(delta.x, delta.x), Mul(delta.y, delta.y)))
  IN [x |-> MulTrig(magnitude, MathCos(closestAxis)),
      y |-> MulTrig(magnitude, MathSin(closestAxis))]

\* the projection of delta onto closestAxis, along the better of its two directions
projectOntoAxis(delta, closestAxis) ==
  LET magnitude == MathSqrt(Add(Mul(delta.x, delta.x), Mul(delta.y, delta.y)))
      cos1 == MathCos(closestAxis)
      sin1 == MathSin(closestAxis)
      cos2 == MathCos(Add(closestAxis, PI))
      sin2 == MathSin(Add(closestAxis, PI))
      proj1 == Add(MulTrig(delta.x, cos1), MulTrig(delta.y, sin1))
      proj2 == Add(MulTrig(delta.x, cos2), MulTrig(delta.y, sin2))
  IN IF Abs(proj1) > Abs(proj2)
     THEN [x |-> MulTrig(proj1, cos1), y |-> MulTrig(proj1, sin1)]
     ELSE [x |-> MulTrig(proj2, cos2), y |-> MulTrig(proj2, sin2)]

\* a variant without the early return for a zero delta
constrainToNearestAxis_noZeroCheck(delta, constraintAxes) ==
  IF constraintAxes = <<>>
  THEN NaNPoint
  ELSE LET movementAngle == MathAtan2(delta.y, delta.x)
           normalizedMovementAngle == normalizeMovementAngle(movementAngle)
       IN projectOntoAxis(delta,
            findClosestAxis(normalizedMovementAngle, constraintAxes))

\* lines 57-113
constrainToNearestAxis(delta, constraintAxes) ==
  IF delta.x = 0 /\ delta.y = 0
  THEN delta
  ELSE IF constraintAxes = <<>>
       THEN NaNPoint
       ELSE LET movementAngle == MathAtan2(delta.y, delta.x)
                normalizedMovementAngle == normalizeMovementAngle(movementAngle)
            IN projectOntoAxis(delta,
                 findClosestAxis(normalizedMovementAngle, constraintAxes))

(***************************************************************************)
(* The inputs the callers draw from.                                       *)
(***************************************************************************)
\* startAngle: zero, within the tolerance of zero on both sides, one quantum
\* below zero, generic values, multiples of pi/4, values >= pi and <= -pi
StartAngles ==
  {Fl(a) : a \in {-PI - 1000, -(PI \div 4), -1000, -5, -1, 0, 5, 10, 1000,
                  PI \div 4, PI \div 2, PI, PI + 1000}}

MirrorConfigs == [planeCount : 0..MaxPlaneCount, startAngle : StartAngles]

Point(px, py) == [x |-> px, y |-> py]

ZeroPoint == Point(0, 0)

\* whole-pixel drags, the drag (3, 4), and two drags a hair off the x-axis:
\* one pointing just below pi, one just below 0
Deltas ==
  {Point(i * CoordScale, j * CoordScale) : i, j \in -MaxDelta..MaxDelta}
    \cup {Point(3 * CoordScale, 4 * CoordScale),
          Point(-MaxDelta * CoordScale, 1), Point(MaxDelta * CoordScale, -1)}

\* axes lists a caller passes directly: empty, one axis, unsorted, tied pairs
AxesInputs ==
  {<<>>, <<0>>, <<PI \div 4>>, <<PI \div 2, 0>>,
   <<100, PI - 100>>, <<PI - 100, 100>>}

\* every result of calculateConstraintAxes, computed once
axesTable ==
  [mc \in MirrorConfigs |-> calculateConstraintAxes(mc)] @@ <<>>

AllAxesLists == AxesInputs \cup {axesTable[mc] : mc \in MirrorConfigs}

\* every result of constrainToNearestAxis, computed once
constrainTable ==
  [call \in Deltas \X AllAxesLists |->
     constrainToNearestAxis(call[1], call[2])] @@ <<>>

(***************************************************************************)
(* The debug store (src/src/stores/debugStore.ts): a zustand store wrapped *)
(* in persist, and the profiler it switches.                               *)
(***************************************************************************)
\* the profiler holds at most this many measures in the model
MaxMeasures == 2

debugVars == <<debug, storage, profilerEnabled, profilingData, debugCall>>

\* the visibility toggles of DebugState
VisibilityFlags ==
  {"showTangentPoints", "showTangentLabels", "showArcAngles", "showPathOrder",
   "showCircleCenters", "showGridCoords", "showArcDirection",
   "showMirrorPlaneNumbers"}

\* the profiling part of DebugState
ProfilingFlags == {"profilingEnabled", "showPerformanceOverlay"}

DebugFlags == VisibilityFlags \cup ProfilingFlags

\* the initial state of the store: every setting disabled
defaultDebugState == [f \in DebugFlags |-> FALSE]

\* partialize: the part of the state persist writes to storage
partialize(state) == [f \in VisibilityFlags |-> state[f]]

\* the default merge of persist: { ...currentState, ...persistedState }
merge(persistedState, currentState) ==
  [f \in DOMAIN currentState |->
     IF f \in DOMAIN persistedState THEN persistedState[f] ELSE currentState[f]]

\* a variant whose callback leaves the rehydrated state as it is
onRehydrateStorage_nothing(state) == state

\* the callback onRehydrateStorage returns: it switches the profiling flags off
onRehydrateStorage(state) ==
  [state EXCEPT !["profilingEnabled"] = FALSE,
                !["showPerformanceOverlay"] = FALSE]

\* set(partial) of the persisted store: merge the partial state in, then write
\* the partialized state to storage
setState(partial) ==
  /\ debug' = merge(partial, debug)
  /\ storage' = partialize(debug')

\* set((state) => ({ [flag]: !state[flag] })): the eight toggle actions and
\* togglePerformanceOverlay
toggleFlag(flag) ==
  /\ setState([f \in {flag} |-> ~debug[flag]])
  /\ UNCHANGED <<profilerEnabled, profilingData>>
  /\ debugCall' = "toggle"

toggleTangentPoints == toggleFlag("showTangentPoints")

toggleTangentLabels == toggleFlag("showTangentLabels")

toggleArcAngles == toggleFlag("showArcAngles")

togglePathOrder == toggleFlag("showPathOrder")

toggleCircleCenters == toggleFlag("showCircleCenters")

toggleGridCoords == toggleFlag("showGridCoords")

toggleArcDirection == toggleFlag("showArcDirection")

toggleMirrorPlaneNumbers == toggleFlag("showMirrorPlaneNumbers")

togglePerformanceOverlay == toggleFlag("showPerformanceOverlay")

\* a variant that resets the visibility toggles and leaves profiling alone
resetDebug_visibilityOnly ==
  /\ setState([f \in VisibilityFlags |-> FALSE])
  /\ UNCHANGED <<profilerEnabled, profilingData>>
  /\ debugCall' = "resetDebug"

\* resetDebug: disableProfiler(), clearProfilingData(), set(all ten false)
resetDebug ==
  /\ profilerEnabled' = FALSE
  /\ profilingData' = 0
  /\ setState([f \in DebugFlags |-> FALSE])
  /\ debugCall' = "resetDebug"

\* a variant that flips the flag and leaves the profiler as it is
toggleProfiling_flagOnly ==
  /\ setState([f \in {"profilingEnabled"} |-> ~debug["profilingEnabled"]])
  /\ UNCHANGED <<profilerEnabled, profilingData>>
  /\ debugCall' = "toggleProfiling"

\* toggleProfiling: enableProfiler() or disableProfiler(), then the flag
toggleProfiling ==
  LET newEnabled == ~debug["profilingEnabled"]
  IN /\ profilerEnabled' = newEnabled
     /\ setState([f \in {"profilingEnabled"} |-> newEnabled])
     /\ UNCHANGED profilingData
     /\ debugCall' = "toggleProfiling"

\* setProfilingEnabled(enabled)
setProfilingEnabled(enabled) ==
  /\ profilerEnabled' = enabled
  /\ setState([f \in {"profilingEnabled"} |-> enabled])
  /\ UNCHANGED profilingData
  /\ debugCall' = "setProfilingEnabled"

\* clearProfilingData of the store: clearProfilingData() of the profiler
clearProfilingData ==
  /\ profilingData' = 0
  /\ UNCHANGED <<debug, storage, profilerEnabled>>
  /\ debugCall' = "clearProfilingData"

\* the profiler records a measure while it is enabled
recordMeasure ==
  /\ profilerEnabled
  /\ profilingData < MaxMeasures
  /\ profilingData' = profilingData + 1
  /\ UNCHANGED <<debug, storage, profilerEnabled>>
  /\ debugCall' = "recordMeasure"

\* the page is loaded again: the modules start from their initial state, the
\* storage is what the last session left
reloadPage ==
  /\ debug' = defaultDebugState
  /\ profilerEnabled' = FALSE
  /\ profilingData' = 0
  /\ UNCHANGED storage
  /\ debugCall' = "reloadPage"

\* hydrate of persist: merge the stored state into the current one, replace
\* the state with it, write it back, then run the callback on that state
rehydrate ==
  /\ debug' = onRehydrateStorage(merge(storage, debug))
  /\ storage' = partialize(merge(storage, debug))
  /\ UNCHANGED <<profilerEnabled, profilingData>>
  /\ debugCall' = "rehydrate"

DebugInit ==
  /\ debug = defaultDebugState
  /\ storage = partialize(defaultDebugState)
  /\ profilerEnabled = FALSE
  /\ profilingData = 0
  /\ debugCall = "create"

(***************************************************************************)
(* The grid renderer's tile cache                                          *)
(* (src/src/components/Canvas/renderers/GridRenderer.ts).  A spacing and a *)
(* dot radius are in coordinate units (1/CoordScale pixel).  An entry of   *)
(* the Map is [key, lastUsed]; the Map keeps its entries in the order of   *)
(* their insertion, which is the order of the sequence.  The canvas and    *)
(* the pattern of an entry are left out: set stores a pattern that is not  *)
(* null, so an entry found is always a hit.                                *)
(***************************************************************************)
gridVars == <<tileCache, now, gridCall>>

MAX_CACHE_SIZE == 20

\* Math.ceil of a spacing, in whole pixels
canvasSizeOf(screenSpacing) == (screenSpacing + CoordScale - 1) \div CoordScale

\* (dotRadius / scale).toFixed(2), in hundredths of a pixel, where
\* scale = screenSpacing / canvasSize
compensatedRadiusFixed(screenSpacing, dotRadius) ==
  LET size == canvasSizeOf(screenSpacing) * CoordScale
  IN  (2 * dotRadius * size + 10 * screenSpacing) \div (20 * screenSpacing)

cacheKey(screenSpacing, dotRadius, rgb) ==
  <<canvasSizeOf(screenSpacing), compensatedRadiusFixed(screenSpacing, dotRadius), rgb>>

\* the index of the entry with this key, 0 when there is none
indexOfKey(cache, key) ==
  IF \E i \in 1..Len(cache) : cache[i].key = key
    THEN CHOOSE i \in 1..Len(cache) : cache[i].key = key
    ELSE 0

\* the position of entry i after entries.sort((a, b) => a[1].lastUsed -
\* b[1].lastUsed), counted from 0; the sort is stable
sortedPosition(cache, i) ==
  Cardinality({j \in 1..Len(cache) :
                 \/ cache[j].lastUsed < cache[i].lastUsed
                 \/ cache[j].lastUsed = cache[i].lastUsed /\ j < i})

\* the entries that remain after those at sorted positions below
\* entries.length / 2 have been deleted
RECURSIVE deleteOldestHalf(_, _)
deleteOldestHalf(cache, i) ==
  IF i > Len(cache) THEN <<>>
  ELSE IF 2 * sortedPosition(cache, i) < Len(cache)
    THEN deleteOldestHalf(cache, i + 1)
    ELSE <<cache[i]>> \o deleteOldestHalf(cache, i + 1)

\* a variant that cleans up only once the cache is over its maximum
cleanup_whenOver(cache) ==
  IF Len(cache) > MAX_CACHE_SIZE THEN deleteOldestHalf(cache, 1) ELSE cache

\* if (tileCache.size >= MAX_CACHE_SIZE) { ... }
cleanup(cache) ==
  IF Len(cache) >= MAX_CACHE_SIZE THEN deleteOldestHalf(cache, 1) ELSE cache

\* getTilePattern(ctx, screenSpacing, dotRadius, rgb); patternCreated says
\* whether getContext('2d') and createPattern both return an object
getTilePattern(screenSpacing, dotRadius, rgb, patternCreated) ==
  LET key == cacheKey(screenSpacing, dotRadius, rgb)
      at  == indexOfKey(tileCache, key)
  IN  /\ now' = now
      /\ IF screenSpacing < 4 * CoordScale \/ screenSpacing > 500 * CoordScale
           THEN UNCHANGED <<tileCache, gridCall>>
         ELSE IF at # 0
           THEN /\ tileCache' = [tileCache EXCEPT ![at].lastUsed = now]
                /\ gridCall' = [op |-> "hit", key |-> key]
         ELSE IF ~patternCreated
           THEN /\ tileCache' = cleanup(tileCache)
                /\ gridCall' = [op |-> "failed", key |-> key]
         ELSE /\ tileCache' =
                   Append(cleanup(tileCache), [key |-> key, lastUsed |-> now])
              /\ gridCall' = [op |-> "miss", key |-> key]

\* clearGridCache()
clearGridCache ==
  /\ tileCache' = <<>>
  /\ now' = now
  /\ gridCall' = [op |-> "clear", key |-> <<>>]

\* time passes between two calls
Tick ==
  /\ now < MaxClock
  /\ now' = now + 1
  /\ UNCHANGED <<tileCache, gridCall>>

\* the spacings of the grid levels a zoom sweeps through, whole pixels from
\* the smallest that is drawn, enough of them to fill the cache and go on
SweepSpacings == {n * CoordScale : n \in 4..(MAX_CACHE_SIZE + 5)}

\* the next level of the sweep that has no tile yet
nextSweepSpacing(cache, dotRadius, rgb) ==
  LET cached == {cache[i].key : i \in 1..Len(cache)}
      fresh  == {sp \in SweepSpacings : cacheKey(sp, dotRadius, rgb) \notin cached}
  IN  CHOOSE sp \in fresh : \A other \in fresh : sp <= other

\* spacings asked for again and again: one too small and one too large for a
\* tile, and the level the zoom returns to, the first of the sweep
RevisitedSpacings ==
  {4 * CoordScale - 1, 500 * CoordScale + 1, 4 * CoordScale}

\* the dot radius getTilePattern is called with, in coordinate units
DotRadii == {1500}

\* parseColor(gridColor) of the default grid colour
GridColors == {<<42, 42, 42>>}

GridInit ==
  /\ tileCache = <<>>
  /\ now = 0
  /\ gridCall = [op |-> "none", key |-> <<>>]

(***************************************************************************)
(* The canvas component's render (src/src/components/Canvas/Canvas.tsx).   *)
(* A closure of render is the pair of props it was created with; the other *)
(* props decide what is drawn, not whether the grid is drawn or what is    *)
(* reported.  A throw comes from one of the renderers called inside the    *)
(* try block: renderPath in isolate mode, renderGrid, or a later layer.    *)
(***************************************************************************)
canvasVars ==
  <<canvasRef, showGrid, isolatePath, lastRenderErrorRef, firstRenderDoneRef,
    animationFrames, renderCall, runReports, ctx>>

\* the messages a renderer throws
ErrorMessages == {"radius", "order"}

\* a variant that takes every error for a new one
isNewError_always(remembered, errorMessage) == TRUE

\* lastRenderErrorRef.current !== errorMessage
isNewError(remembered, errorMessage) == remembered # {errorMessage}

\* a variant that draws the grid in the first render too
drawsGrid_first(gridShown, isFirstRender) == gridShown

\* if (showGrid && !isFirstRender) renderGrid(...)
drawsGrid(gridShown, isFirstRender) == gridShown /\ ~isFirstRender

\* the places of the try block a render with this closure can throw from:
\* "clear" is lines 155-160, before the ctx.save() of line 163; "renderGrid"
\* is inside renderGrid between its ctx.save() and its ctx.restore()
ThrowSites(closure, gridDrawn) ==
  {"clear"} \cup
  (IF closure.isolatePath THEN {"renderPath"}
   ELSE (IF gridDrawn THEN {"renderGrid"} ELSE {}) \cup {"renderShapes"})

\* The transform of the context is 0 when nothing was applied to the one
\* the canvas was set up with, n > 0 when translate(pan) and scale(zoom) were
\* applied n times on top of it, and -1 after the
\* setTransform(dpr, 0, 0, dpr, 0, 0) of renderGrid.

\* ctx.save(): push the current state
ctxSave(context) ==
  [context EXCEPT !.stack = Append(@, context.transform)]

\* ctx.restore(): pop the state saved last; nothing when the stack is empty
ctxRestore(context) ==
  IF context.stack = <<>> THEN context
  ELSE [stack |-> SubSeq(context.stack, 1, Len(context.stack) - 1),
        transform |-> context.stack[Len(context.stack)]]

\* ctx.translate(pan.x, pan.y); ctx.scale(zoom, zoom)
applyViewport(context) == [context EXCEPT !.transform = @ + 1]

\* renderGrid up to a throw inside its loop: ctx.save(), ctx.setTransform
gridHolding(context) == [ctxSave(context) EXCEPT !.transform = -1]

\* the context at the place the try block is left from: at the throw, or
\* after the ctx.restore() of line 172 or of line 329
contextAtExit(context, throwAt) ==
  IF throwAt = "none" THEN ctxRestore(applyViewport(ctxSave(context)))
  ELSE IF throwAt = "clear" THEN context
  ELSE IF throwAt = "renderGrid" THEN gridHolding(applyViewport(ctxSave(context)))
  ELSE applyViewport(ctxSave(context))

\* the context render leaves: the catch block of line 338 calls
\* ctx.restore() once
contextAfter(context, throwAt) ==
  IF throwAt = "none" THEN contextAtExit(context, throwAt)
  ELSE ctxRestore(contextAtExit(context, throwAt))

\* what renderCall holds before the first call and after a call that found
\* no canvas
noRender(how) ==
  [outcome |-> how, isFirstRender |-> FALSE, showGrid |-> FALSE,
   isolatePath |-> FALSE, gridDrawn |-> FALSE, message |-> {},
   reported |-> FALSE, scheduled |-> FALSE, deferred |-> FALSE]

\* render(), called with the closure it was created in; throwAt is "none" or
\* the renderer that throws errorMessage; deferred says that the call comes
\* from the callback of line 367; pending is the callbacks that wait
render(closure, throwAt, errorMessage, deferred, pending) ==
  LET isFirstRender == ~firstRenderDoneRef
      gridDrawn     == ~closure.isolatePath /\ drawsGrid(closure.showGrid, isFirstRender)
      threw         == throwAt # "none"
      \* the return of line 175, inside the try block
      returnedEarly == closure.isolatePath /\ ~threw
      reported      == threw /\ isNewError(lastRenderErrorRef, errorMessage)
      scheduled     == isFirstRender /\ ~returnedEarly
  IN  IF ~canvasRef
        THEN /\ throwAt = "none"
             /\ renderCall' = [noRender("noCanvas") EXCEPT !.deferred = deferred]
             /\ runReports' = 0
             /\ animationFrames' = pending
             /\ UNCHANGED <<canvasRef, showGrid, isolatePath, lastRenderErrorRef,
                            firstRenderDoneRef, ctx>>
        ELSE /\ throwAt \in {"none"} \cup ThrowSites(closure, gridDrawn)
             /\ throwAt = "renderGrid" => Len(ctx.stack) < MaxSaveDepth
             /\ ctx' = contextAfter(ctx, throwAt)
             /\ lastRenderErrorRef' = IF threw THEN {errorMessage} ELSE {}
             /\ firstRenderDoneRef' = (firstRenderDoneRef \/ scheduled)
             /\ animationFrames' = IF scheduled THEN Append(pending, closure) ELSE pending
             /\ renderCall' =
                  [outcome |-> IF threw THEN "threw"
                               ELSE IF returnedEarly THEN "isolated" ELSE "done",
                   isFirstRender |-> isFirstRender,
                   showGrid |-> closure.showGrid,
                   isolatePath |-> closure.isolatePath,
                   gridDrawn |-> gridDrawn,
                   message |-> IF threw THEN {errorMessage} ELSE {},
                   reported |-> reported,
                   scheduled |-> scheduled,
                   deferred |-> deferred]
             /\ runReports' =
                  IF ~threw THEN 0
                  ELSE (IF renderCall.outcome = "threw" /\ renderCall.message = {errorMessage}
                          THEN runReports ELSE 0)
                       + (IF reported THEN 1 ELSE 0)
             /\ UNCHANGED <<canvasRef, showGrid, isolatePath>>

\* the calls with the current closure: useEffect[render], the resize
\* observer, the animation loops
RenderCurrent(throwAt, errorMessage) ==
  /\ canvasRef
  /\ render([showGrid |-> showGrid, isolatePath |-> isolatePath], throwAt,
            errorMessage, FALSE, animationFrames)

\* the browser runs the oldest waiting callback, mounted or not
RunAnimationFrame(throwAt, errorMessage) ==
  /\ animationFrames # <<>>
  /\ render(Head(animationFrames), throwAt, errorMessage, TRUE, Tail(animationFrames))

\* the settings store changes showGrid; the component gets a new closure
ToggleShowGrid ==
  /\ canvasRef
  /\ showGrid' = ~showGrid
  /\ UNCHANGED <<canvasRef, isolatePath, lastRenderErrorRef, firstRenderDoneRef,
                 animationFrames, renderCall, runReports, ctx>>

\* the settings store changes isolatePath
ToggleIsolatePath ==
  /\ canvasRef
  /\ isolatePath' = ~isolatePath
  /\ UNCHANGED <<canvasRef, showGrid, lastRenderErrorRef, firstRenderDoneRef,
                 animationFrames, renderCall, runReports, ctx>>

\* the component unmounts: React sets canvasRef.current to null; the
\* callback of line 367 is not cancelled
Unmount ==
  /\ canvasRef
  /\ canvasRef' = FALSE
  /\ UNCHANGED <<showGrid, isolatePath, lastRenderErrorRef, firstRenderDoneRef,
                 animationFrames, renderCall, runReports, ctx>>

\* the component as mounted, before its first render; the other settings
\* are reached by the toggles
CanvasInit ==
  /\ canvasRef = TRUE
  /\ showGrid = TRUE
  /\ isolatePath = FALSE
  /\ lastRenderErrorRef = {}
  /\ firstRenderDoneRef = FALSE
  /\ animationFrames = <<>>
  /\ renderCall = noRender("none")
  /\ runReports = 0
  /\ ctx = [stack |-> <<>>, transform |-> 0]

(***************************************************************************)
(* The path geometry: SegmentFactory, MirrorExpander and                   *)
(* TangentHullBuilder (geometry/path, imported by PathInfo.tsx and         *)
(* MeasurementRenderer.ts).  Its code is not among the sources, so it is   *)
(* modelled from spec.md 4.1 to 4.3.  Where they leave a choice open it is *)
(* made as follows.  Open paths are one chain from the first circle to the *)
(* last, as PathModeIcon draws them: an arc at an end only if that end's   *)
(* flag is set.  A circle inside a neighbour is taken out of the traversal *)
(* before the tangents are computed (spec.md 9: "inner circle contributes  *)
(* no tangent segment, only chains through via its neighbors").  A circle  *)
(* is [id, center, radius, mirrored]; an image made by the expander has    *)
(* the id of its source and its place in the orbit as mirrorIndex.         *)
(***************************************************************************)
\* Below, CHOOSE once \in {e(v) : v \in {value}} : TRUE is e(value) with the
\* value computed once, as a local const of the code is.
Circle(id, cx, cy, r, mirrored) ==
  [id |-> id, center |-> Point(cx * CoordScale, cy * CoordScale),
   radius |-> r * CoordScale, mirrored |-> mirrored]

\* d = |c2 - c1|
centerDistance(c1, c2) ==
  CHOOSE once \in
    {MathSqrt(n) :
       n \in {(c2.center.x - c1.center.x) * (c2.center.x - c1.center.x)
                + (c2.center.y - c1.center.y) * (c2.center.y - c1.center.y)}} : TRUE

\* a variant that takes every pair of overlapping circles for degenerate
isDegenerate_overlapping(c1, c2) == centerDistance(c1, c2) <= c1.radius + c2.radius

\* degenerate when d <= |r1 - r2|
isDegenerate(c1, c2) == centerDistance(c1, c2) <= Abs(c1.radius - c2.radius)

clamp(v, lo, hi) == IF v < lo THEN lo ELSE IF v > hi THEN hi ELSE v

\* Math.acos of a cosine in -TrigScale..TrigScale: an angle in 0..PI
MathAcos(t) ==
  CHOOSE once \in
    {MathAtan2(v[1], v[2]) : v \in {<<MathSqrt(TrigScale * TrigScale - t * t), t>>}} : TRUE

\* the unit vector at an angle, in units of 1 / TrigScale
unitVector(angle) ==
  CHOOSE once \in {<<MathCos(a), MathSin(a)>> : a \in {angle}} : TRUE

\* a center moved by a radius along a unit vector
offsetBy(center, radius, unit) ==
  Point(center.x + MulTrig(radius, unit[1]), center.y + MulTrig(radius, unit[2]))

\* the point of a circle at an angle
pointOnCircle(center, radius, angle) ==
  CHOOSE once \in {offsetBy(center, radius, unit) : unit \in {unitVector(angle)}} : TRUE

\* the angle of the outer tangent's normal: theta, the direction from c1 to
\* c2, turned by phi = acos(clamp((r1 - r2) / d, -1, 1)) to the outer side,
\* the right of a counterclockwise path
tangentAngle(c1, c2, counterclockwise) ==
  CHOOSE once \in
    {CHOOSE angle \in
       {IF counterclockwise THEN theta - phi ELSE theta + phi :
          theta \in {MathAtan2(v[1], v[2])},
          phi \in {MathAcos(clamp(RoundDiv(v[4] * TrigScale, v[3]),
                                  -TrigScale, TrigScale))}} : TRUE :
       v \in {<<c2.center.y - c1.center.y, c2.center.x - c1.center.x,
               centerDistance(c1, c2), c1.radius - c2.radius>>}} : TRUE

\* SegmentFactory: the outer tangent of two circles or the degenerate marker
SegmentFactory(c1, c2, counterclockwise) ==
  IF isDegenerate(c1, c2) THEN [degenerate |-> TRUE]
  ELSE CHOOSE once \in
         {[degenerate |-> FALSE,
           start |-> offsetBy(c1.center, c1.radius, unit),
           end |-> offsetBy(c2.center, c2.radius, unit)] :
            unit \in {unitVector(tangentAngle(c1, c2, counterclockwise))}} : TRUE

\* the angle of plane i of a mirror configuration
mirrorPlaneAngle(mirror, i) ==
  mirror.startAngle + RoundDiv(i * PI, mirror.planeCount)

\* a point turned about the origin by an angle
rotateBy(p, angle) ==
  CHOOSE once \in
    {Point(RoundDiv(p.x * unit[1] - p.y * unit[2], TrigScale),
           RoundDiv(p.x * unit[2] + p.y * unit[1], TrigScale)) :
       unit \in {unitVector(angle)}} : TRUE

\* image k of a circle, k in 1..2N-1, going round the origin: an odd k is
\* the circle reflected across plane (k - 1) / 2, which is its reflection
\* across the x-axis turned by twice the angle of the plane; an even k is
\* the circle turned by k / 2 times 2 pi / N (two reflections)
mirrorImage(circle, mirror, k) ==
  [id |-> circle.id,
   center |-> IF k % 2 = 1
                THEN rotateBy(Point(circle.center.x, -circle.center.y),
                              2 * mirrorPlaneAngle(mirror, (k - 1) \div 2))
                ELSE rotateBy(circle.center, RoundDiv(k * PI, mirror.planeCount)),
   radius |-> circle.radius,
   mirrored |-> TRUE,
   mirrorIndex |-> k]

\* a variant that reflects the circle across each plane and stops there
orbit_reflections(circle, mirror) ==
  <<circle>> \o [k \in 1..mirror.planeCount |-> mirrorImage(circle, mirror, 2 * k - 1)]

\* the orbit of a circle under the group of the N planes: the circle itself
\* and its 2N - 1 images
orbit(circle, mirror) ==
  <<circle>> \o [k \in 1..(2 * mirror.planeCount - 1) |-> mirrorImage(circle, mirror, k)]

\* MirrorExpander.expand: every mirrored circle replaced by its orbit, the
\* images next to their source
RECURSIVE expand(_, _)
expand(circles, mirror) ==
  IF circles = <<>> THEN <<>>
  ELSE (IF Head(circles).mirrored /\ mirror.planeCount > 0
          THEN orbit(Head(circles), mirror)
          ELSE <<Head(circles)>>)
       \o expand(Tail(circles), mirror)

\* the circles with an id, in their order
circlesWithId(circles, id) == SelectSeq(circles, LAMBDA c : c.id = id)

\* a variant that keeps a place in the traversal for an id without a
\* circle, as a circle of one pixel at the origin
RECURSIVE orderedCircles_unfiltered(_, _)
orderedCircles_unfiltered(circles, order) ==
  IF order = <<>> THEN <<>>
  ELSE (IF circlesWithId(circles, Head(order)) = <<>>
          THEN <<[id |-> Head(order), center |-> ZeroPoint, radius |-> CoordScale,
                  mirrored |-> FALSE]>>
          ELSE circlesWithId(circles, Head(order)))
       \o orderedCircles_unfiltered(circles, Tail(order))

\* the traversal: for each id of order the circles that have it; an id
\* without a circle is dropped
RECURSIVE orderedCircles(_, _)
orderedCircles(circles, order) ==
  IF order = <<>> THEN <<>>
  ELSE circlesWithId(circles, Head(order)) \o orderedCircles(circles, Tail(order))

\* twice the signed area of the polygon of the centers, in square pixels
RECURSIVE signedArea2(_, _)
signedArea2(cs, i) ==
  IF i > Len(cs) THEN 0
  ELSE LET p == cs[i].center
           q == cs[IF i = Len(cs) THEN 1 ELSE i + 1].center
       IN  (p.x * q.y - q.x * p.y) \div (CoordScale * CoordScale) + signedArea2(cs, i + 1)

\* the handedness of the path, fixed once
isCounterclockwise(cs) == signedArea2(cs, 1) >= 0

removeAt(seq, i) == SubSeq(seq, 1, i - 1) \o SubSeq(seq, i + 1, Len(seq))

\* the neighbours of place i in a traversal of n circles
neighbours(i, n, closed) ==
  ({i - 1, i + 1} \cap (1..n))
    \cup (IF closed /\ i = 1 THEN {n} ELSE {})
    \cup (IF closed /\ i = n THEN {1} ELSE {})

\* the places of the circles that lie inside a neighbour; of two equal
\* circles the later one does
insiders(cs, closed) ==
  {i \in 1..Len(cs) :
     \E j \in neighbours(i, Len(cs), closed) \ {i} :
       /\ isDegenerate(cs[i], cs[j])
       /\ \/ cs[i].radius < cs[j].radius
          \/ cs[i].radius = cs[j].radius /\ i > j}

\* the traversal without the circles that lie inside a neighbour
RECURSIVE dropContained(_, _)
dropContained(cs, closed) ==
  CHOOSE once \in
    {IF found = {} THEN cs
     ELSE CHOOSE outer \in
            {dropContained(rest, closed) :
               rest \in {removeAt(cs, CHOOSE i \in found : \A j \in found : i <= j)}} : TRUE :
       found \in {insiders(cs, closed)}} : TRUE

Line(p, q) == [type |-> "line", start |-> p, end |-> q]

\* the tangent from p on a circle bowed by stretch along the normal of the
\* pair, which is the radius to p
Bezier(p, q, circle, stretch) ==
  CHOOSE once \in
    {[type |-> "bezier", start |-> p,
      cp1 |-> Point(p.x + (q.x - p.x) \div 3 + bow.x, p.y + (q.y - p.y) \div 3 + bow.y),
      cp2 |-> Point(q.x - (q.x - p.x) \div 3 + bow.x, q.y - (q.y - p.y) \div 3 + bow.y),
      end |-> q] :
       bow \in {Point(RoundDiv((p.x - circle.center.x) * stretch, circle.radius),
                      RoundDiv((p.y - circle.center.y) * stretch, circle.radius))}} : TRUE

\* a variant that measures the angle from the origin
angleOnCircle_fromOrigin(circle, p) ==
  CHOOSE once \in {MathAtan2(v[1], v[2]) : v \in {<<p.y, p.x>>}} : TRUE

\* the angle of a point of a circle, seen from its center
angleOnCircle(circle, p) ==
  CHOOSE once \in
    {MathAtan2(v[1], v[2]) :
       v \in {<<p.y - circle.center.y, p.x - circle.center.x>>}} : TRUE

Arc(circle, startAngle, endAngle, counterclockwise) ==
  [type |-> "arc", center |-> circle.center, radius |-> circle.radius,
   startAngle |-> startAngle, endAngle |-> endAngle,
   counterclockwise |-> counterclockwise]

\* the segments of a traversal of two circles or more, none inside a
\* neighbour, whose handedness is ccw; tangents[i] leaves circle i, at the
\* angle leaves[i], and arrives on the next circle at the angle arrives[i]
chainSegments(cs, tangents, leaves, arrives, ccw, stretch, closed, useStart, useEnd) ==
  LET n    == Len(cs)
      next(i) == IF i = n THEN 1 ELSE i + 1
      last == Len(tangents)
      half == IF ccw THEN PI ELSE -PI
      \* tangent, arc, tangent and so on: a closed path ends with the arc
      \* that leads back to the first tangent, an open one with a tangent
      chain ==
        [j \in 1..(IF closed THEN 2 * last ELSE 2 * last - 1) |->
           IF j % 2 = 1
             THEN (IF stretch = 0
                     THEN Line(tangents[(j + 1) \div 2].start, tangents[(j + 1) \div 2].end)
                     ELSE Bezier(tangents[(j + 1) \div 2].start,
                                 tangents[(j + 1) \div 2].end, cs[(j + 1) \div 2], stretch))
             ELSE Arc(cs[next(j \div 2)], arrives[j \div 2], leaves[next(j \div 2)], ccw)]
  IN  (IF ~closed /\ useStart
         THEN <<Arc(cs[1], leaves[1] - half, leaves[1], ccw)>> ELSE <<>>)
      \o chain
      \o (IF ~closed /\ useEnd
            THEN <<Arc(cs[n], arrives[n - 1], arrives[n - 1] + half, ccw)>> ELSE <<>>)

\* the segments of a traversal of two circles or more, none inside a
\* neighbour
hullSegments(cs, stretch, closed, useStart, useEnd) ==
  CHOOSE once \in
    {CHOOSE segments \in
       {CHOOSE chained \in
          {chainSegments(cs, tangents, leaves, arrives, ccw, stretch, closed,
                         useStart, useEnd) :
             leaves \in {[i \in DOMAIN tangents |->
                            angleOnCircle(cs[i], tangents[i].start)]},
             arrives \in {[i \in DOMAIN tangents |->
                             angleOnCircle(cs[IF i = Len(cs) THEN 1 ELSE i + 1],
                                           tangents[i].end)]}} : TRUE :
          tangents \in
            {[i \in 1..(IF closed THEN Len(cs) ELSE Len(cs) - 1) |->
                SegmentFactory(cs[i], cs[IF i = Len(cs) THEN 1 ELSE i + 1], ccw)]}} : TRUE :
       ccw \in {isCounterclockwise(cs)}} : TRUE

\* computeTangentHull(circles, order, stretch, closed, useStart, useEnd,
\* mirrorConfig)
computeTangentHull(circles, order, stretch, closed, useStart, useEnd, mirror) ==
  CHOOSE once \in
    {IF Len(traversal) < 2 THEN [segments |-> <<>>]
     ELSE CHOOSE pathData \in
            {IF Len(outer) < 2 THEN [segments |-> <<>>]
             ELSE [segments |-> hullSegments(outer, stretch, closed, useStart, useEnd)] :
               outer \in {dropContained(traversal, closed)}} : TRUE :
       traversal \in {orderedCircles(expand(circles, mirror), order)}} : TRUE

\* the circles the geometry is called with, in pixels: two apart, one inside
\* another and touching it from within, one overlapping, two with the same
\* center, one off the axes
CirclePool ==
  {Circle("a", 0, 0, 2, m) : m \in BOOLEAN}
    \cup {Circle("b", 10, 0, 2, m) : m \in BOOLEAN}
    \cup {Circle("c", 1, 0, 1, m) : m \in BOOLEAN}
    \cup {Circle("d", 4, 6, 3, m) : m \in BOOLEAN}
    \cup {Circle("e", 3, 0, 2, FALSE), Circle("f", 0, 0, 1, FALSE)}

\* the lists expand is called with directly
ExpandInputs ==
  {<<>>} \cup {<<c>> : c \in CirclePool}
    \cup {<<Circle("a", 0, 0, 2, FALSE), Circle("d", 4, 6, 3, TRUE)>>,
          <<Circle("d", 4, 6, 3, TRUE), Circle("b", 10, 0, 2, FALSE)>>}

\* the documents of the model: their circles and their traversal order,
\* with ids that match no circle, circles left out of the order, a circle
\* inside its neighbour, a clockwise order and mirrored circles
Documents ==
  LET a == Circle("a", 0, 0, 2, FALSE)
      b == Circle("b", 10, 0, 2, FALSE)
      c == Circle("c", 1, 0, 1, FALSE)
      d == Circle("d", 4, 6, 3, FALSE)
      aM == Circle("a", 0, 0, 2, TRUE)
      bM == Circle("b", 10, 0, 2, TRUE)
      dM == Circle("d", 4, 6, 3, TRUE)
      doc(circles, order) == [shapes |-> circles, shapeOrder |-> order]
  IN  {doc(<<>>, <<>>), doc(<<>>, <<"ghost">>),
       doc(<<a>>, <<"a">>),
       doc(<<a, b>>, <<"a", "b">>),
       doc(<<a, b>>, <<"a", "ghost", "b">>),
       doc(<<a, b>>, <<"ghost", "b">>),
       doc(<<a, c, b>>, <<"a", "c", "b">>),
       doc(<<a, b, d>>, <<"a", "b", "d">>),
       doc(<<a, b, d>>, <<"d", "b", "a">>),
       doc(<<dM>>, <<"d">>),
       doc(<<dM, b>>, <<"d", "b">>),
       doc(<<aM, b>>, <<"a", "b">>),
       doc(<<bM, d>>, <<"b", "d">>)}

\* the mirror configurations of a document of the model
DocumentMirrors ==
  {[planeCount |-> n, startAngle |-> Fl(1000)] : n \in 0..MaxPlaneCount}

\* the bow of the tangents in a direct call of computeTangentHull: none
\* and half a pixel
Stretches == {0, CoordScale \div 2}

geometryVars == <<geometryCall>>

\* every result of SegmentFactory, computed once
segmentFactoryTable ==
  [call \in CirclePool \X CirclePool \X BOOLEAN |->
     SegmentFactory(call[1], call[2], call[3])] @@ <<>>

\* every result of expand, computed once
expandTable ==
  [call \in ExpandInputs \X MirrorConfigs |-> expand(call[1], call[2])] @@ <<>>

\* a direct call of SegmentFactory; the functions are pure, so one call is
\* looked at at a time
CallSegmentFactory(c1, c2, counterclockwise) ==
  /\ geometryCall.op = "none"
  /\ geometryCall' = [op |-> "SegmentFactory", c1 |-> c1, c2 |-> c2,
                      counterclockwise |-> counterclockwise,
                      result |-> segmentFactoryTable[<<c1, c2, counterclockwise>>]]

\* a direct call of MirrorExpander.expand
CallExpand(circles, mirror) ==
  /\ geometryCall.op = "none"
  /\ geometryCall' = [op |-> "expand", circles |-> circles, mirror |-> mirror,
                      result |-> expandTable[<<circles, mirror>>]]

\* every result of computeTangentHull, computed once
hullTable ==
  [call \in Documents \X Stretches \X BOOLEAN \X BOOLEAN \X BOOLEAN
               \X DocumentMirrors |->
     computeTangentHull(call[1].shapes, call[1].shapeOrder, call[2], call[3],
                        call[4], call[5], call[6])] @@ <<>>

\* a direct call of computeTangentHull
CallComputeTangentHull(circles, order, stretch, closed, useStart, useEnd, mirror) ==
  /\ geometryCall.op = "none"
  /\ geometryCall' = [op |-> "computeTangentHull", circles |-> circles,
                      order |-> order, stretch |-> stretch, closed |-> closed,
                      useStart |-> useStart, useEnd |-> useEnd, mirror |-> mirror,
                      result |-> hullTable[<<[shapes |-> circles,
                                               shapeOrder |-> order],
                                              stretch, closed, useStart, useEnd,
                                              mirror>>]]

\* the caller is done with the value returned
DropResult ==
  /\ geometryCall.op # "none"
  /\ geometryCall' = [op |-> "none"]

GeometryInit == geometryCall = [op |-> "none"]

(***************************************************************************)
(* The document (stores/documentStore, not among the sources: its fields   *)
(* and actions are taken from their uses in PathInfo.tsx and Toolbar.tsx)  *)
(* and the two components that show its path state: PathInfo               *)
(* (src/src/components/HierarchyPanel/PathInfo.tsx) and the Toolbar        *)
(* (src/src/components/Toolbar/Toolbar.tsx).  Every shape of the model is  *)
(* a circle.  A change of the store renders both components again.         *)
(***************************************************************************)
pathVars ==
  <<shapes, shapeOrder, closedPath, useStartPoint, useEndPoint,
    documentMirror, pathInfoView, toolbarView>>

\* the least number of circles PathInfo asks for
MIN_CIRCLES == 2

\* a variant that takes the start flag for the right arc and the end flag
\* for the left one
pathMode_endFirst(closed, useStart, useEnd) ==
  IF closed THEN "closed"
  ELSE IF useStart /\ useEnd THEN "both-arcs"
  ELSE IF useEnd THEN "left-arc"
  ELSE IF useStart THEN "right-arc"
  ELSE "tangent"

\* PathInfo: the path mode derived from the state
pathMode(closed, useStart, useEnd) ==
  IF closed THEN "closed"
  ELSE IF useStart /\ useEnd THEN "both-arcs"
  ELSE IF useStart THEN "left-arc"
  ELSE IF useEnd THEN "right-arc"
  ELSE "tangent"

\* PathInfo: whether the useMemo of pathData returned null; what
\* computeTangentHull returns is an object, and the component reads nothing
\* of it but that it is one
pathDataIsNull(circles) == Len(circles) < MIN_CIRCLES

\* PathInfo rendered: the mode button is shown when there is pathData
PathInfo(circles, order, closed, useStart, useEnd, mirror) ==
  [pathMode |-> pathMode(closed, useStart, useEnd),
   showsMode |-> ~pathDataIsNull(circles)]

\* the Toolbar rendered: disabled={closedPath} on both toggles
Toolbar(closed) == [startDisabled |-> closed, endDisabled |-> closed]

\* both components rendered from the next state of the store
Rendered ==
  /\ pathInfoView' = PathInfo(shapes', shapeOrder', closedPath', useStartPoint',
                              useEndPoint', documentMirror')
  /\ toolbarView' = Toolbar(closedPath')

\* a document opened
loadDocument(document) ==
  /\ shapes' = document.shapes
  /\ shapeOrder' = document.shapeOrder
  /\ UNCHANGED <<closedPath, useStartPoint, useEndPoint, documentMirror>>
  /\ Rendered

\* the mirror settings changed
setDocumentMirrorConfig(mirror) ==
  /\ documentMirror' = mirror
  /\ UNCHANGED <<shapes, shapeOrder, closedPath, useStartPoint, useEndPoint>>
  /\ Rendered

\* the loop toggle of the Toolbar clicked
toggleClosedPath ==
  /\ closedPath' = ~closedPath
  /\ UNCHANGED <<shapes, shapeOrder, useStartPoint, useEndPoint, documentMirror>>
  /\ Rendered

\* the start toggle of the Toolbar clicked: a disabled button takes no click
toggleUseStartPoint ==
  /\ ~toolbarView.startDisabled
  /\ useStartPoint' = ~useStartPoint
  /\ UNCHANGED <<shapes, shapeOrder, closedPath, useEndPoint, documentMirror>>
  /\ Rendered

\* the end toggle of the Toolbar clicked
toggleUseEndPoint ==
  /\ ~toolbarView.endDisabled
  /\ useEndPoint' = ~useEndPoint
  /\ UNCHANGED <<shapes, shapeOrder, closedPath, useStartPoint, documentMirror>>
  /\ Rendered

\* an empty open document with both ends set, shown
PathInit ==
  /\ shapes = <<>>
  /\ shapeOrder = <<>>
  /\ closedPath = FALSE
  /\ useStartPoint = TRUE
  /\ useEndPoint = TRUE
  /\ documentMirror = [planeCount |-> 0, startAngle |-> Fl(1000)]
  /\ pathInfoView = PathInfo(shapes, shapeOrder, closedPath, useStartPoint,
                             useEndPoint, documentMirror)
  /\ toolbarView = Toolbar(closedPath)

(***************************************************************************)
(* The dropdown menus of the Toolbar                                       *)
(* (src/src/components/Toolbar/Toolbar.tsx).  A handler, the render it     *)
(* causes and the effects of that render are one step: the handlers run    *)
(* in click, mousedown and keydown events, whose updates React renders and *)
(* whose effects it runs before the browser runs the next task.  The       *)
(* callback of setTimeout is a task of its own.  onClose is closeMenu, a   *)
(* new function in every render of the Toolbar, so every render cleans up  *)
(* the effects of an open menu and runs them again.                        *)
(***************************************************************************)
menuVars == <<toolbarMounted, openMenu, menuEffects, menuCall>>

\* the three DropdownMenus of the Toolbar
Menus == {"file", "theme", "debug"}

\* the items of the file menu and of the theme menu; the store actions they
\* call leave the menus and the debug store alone
FileItems == {"handleNew", "handleLoad", "handleSave", "handleExportSvg", "handleLoadPreset"}

\* a DropdownMenu that is closed and has nothing registered
closedMenu == [isOpen |-> FALSE, timer |-> FALSE, mousedown |-> FALSE, keydown |-> FALSE]

\* a variant whose cleanup does not clear the timer
cleanupEffects_timerLeft(effects) ==
  [effects EXCEPT !.mousedown = FALSE, !.keydown = FALSE]

\* the cleanups of the two effects: clearTimeout and removeEventListener of
\* mousedown, removeEventListener of keydown
cleanupEffects(effects) ==
  [effects EXCEPT !.timer = FALSE, !.mousedown = FALSE, !.keydown = FALSE]

\* the two effects of a DropdownMenu rendered with isOpen, after the
\* cleanups of the render before: nothing when closed; when open the timer
\* is set and the keydown listener is registered
runEffects(isOpen, cleaned) ==
  IF isOpen THEN [cleaned EXCEPT !.isOpen = TRUE, !.timer = TRUE, !.keydown = TRUE]
  ELSE [cleaned EXCEPT !.isOpen = FALSE]

\* a render of the Toolbar with a value of openMenu
renderToolbar(open) ==
  [m \in Menus |-> runEffects(open = {m}, cleanupEffects(menuEffects[m]))]

\* setOpenMenu(value) in a handler: a value that is the current one causes
\* no render
setOpenMenu(value, rendersAnyway) ==
  /\ openMenu' = value
  /\ menuEffects' = IF value = openMenu /\ ~rendersAnyway THEN menuEffects
                    ELSE renderToolbar(value)
  /\ UNCHANGED toolbarMounted

\* a variant that opens the menu whatever is open
toggledMenu_opens(open, menu) == {menu}

\* openMenu === menu ? null : menu
toggledMenu(open, menu) == IF open = {menu} THEN {} ELSE {menu}

\* the handler call in menuCall, with the openMenu and the waiting timers
\* it found
called(op, menus) ==
  [op |-> op, menus |-> menus, wasOpen |-> openMenu,
   timers |-> {m \in Menus : menuEffects[m].timer}]

\* toggleMenu(menu): the click on the button of a menu
toggleMenu(menu) ==
  /\ toolbarMounted
  /\ setOpenMenu(toggledMenu(openMenu, menu), FALSE)
  /\ menuCall' = called("toggleMenu", {menu})
  /\ UNCHANGED debugVars

\* handleNew, handleLoad, handleSave, handleExportSvg, handleLoadPreset: the
\* click on an item of the open file menu
handleFileItem(item) ==
  /\ toolbarMounted
  /\ menuEffects["file"].isOpen
  /\ setOpenMenu({}, TRUE)
  /\ menuCall' = called(item, {"file"})
  /\ UNCHANGED debugVars

\* handleSetTheme(id): the click on an item of the open theme menu
handleSetTheme ==
  /\ toolbarMounted
  /\ menuEffects["theme"].isOpen
  /\ setOpenMenu({}, TRUE)
  /\ menuCall' = called("handleSetTheme", {"theme"})
  /\ UNCHANGED debugVars

\* handleToggleDebug(toggle)(): toggle(); closeMenu().  The items Show FPS
\* Overlay, Print Report and Clear Profiling Data are disabled unless
\* profilingEnabled
handleToggleDebug(toggle, item, disabled) ==
  /\ toolbarMounted
  /\ menuEffects["debug"].isOpen
  /\ ~disabled
  /\ toggle
  /\ setOpenMenu({}, TRUE)
  /\ menuCall' = called(item, {"debug"})

\* printProfilingReport prints and changes nothing
printProfilingReport == UNCHANGED debugVars

\* the menus whose mousedown listener is registered and that do not contain
\* the target of the event
clickedOutside(target) ==
  {m \in Menus : menuEffects[m].mousedown /\ target # m}

\* a mousedown on the document, on a DropdownMenu or elsewhere: each
\* handleClickOutside that is registered calls onClose for a target outside
\* its menu
mouseDown(target) ==
  /\ clickedOutside(target) # {}
  /\ setOpenMenu({}, FALSE)
  /\ menuCall' = called("handleClickOutside", clickedOutside(target))
  /\ UNCHANGED debugVars

\* the Escape key: each handleKeyDown that is registered calls onClose
keyDownEscape ==
  /\ {m \in Menus : menuEffects[m].keydown} # {}
  /\ setOpenMenu({}, FALSE)
  /\ menuCall' = called("handleKeyDown", {m \in Menus : menuEffects[m].keydown})
  /\ UNCHANGED debugVars

\* the callback of the setTimeout of line 44 runs: addEventListener
timerFires(menu) ==
  /\ menuEffects[menu].timer
  /\ menuEffects' = [menuEffects EXCEPT ![menu].timer = FALSE, ![menu].mousedown = TRUE]
  /\ menuCall' = called("timeout", {menu})
  /\ UNCHANGED <<toolbarMounted, openMenu, debugVars>>

\* a store the Toolbar reads changes and the Toolbar renders again
rerenderToolbar ==
  /\ toolbarMounted
  /\ menuEffects' = renderToolbar(openMenu)
  /\ menuCall' = called("render", {})
  /\ UNCHANGED <<toolbarMounted, openMenu, debugVars>>

\* the Toolbar unmounts: the cleanups of its DropdownMenus run, its state is
\* dropped
unmountToolbar ==
  /\ toolbarMounted
  /\ toolbarMounted' = FALSE
  /\ openMenu' = {}
  /\ menuEffects' = [m \in Menus |-> [cleanupEffects(menuEffects[m]) EXCEPT !.isOpen = FALSE]]
  /\ menuCall' = called("unmount", {})
  /\ UNCHANGED debugVars

\* the Toolbar mounts: useState(null), every menu rendered closed
mountToolbar ==
  /\ ~toolbarMounted
  /\ toolbarMounted' = TRUE
  /\ openMenu' = {}
  /\ menuEffects' = [m \in Menus |-> runEffects(FALSE, menuEffects[m])]
  /\ menuCall' = called("mount", {})
  /\ UNCHANGED debugVars

MenuInit ==
  /\ toolbarMounted = TRUE
  /\ openMenu = {}
  /\ menuEffects = [m \in Menus |-> closedMenu]
  /\ menuCall = [op |-> "mount", menus |-> {}, wasOpen |-> {}, timers |-> {}]

(***************************************************************************)
(* The callers: the document's mirror configuration and the drag handler.  *)
(***************************************************************************)
solverVars == <<config, axes, axesArg, deltaArg, result, pc>>

Init ==
  /\ config = [planeCount |-> 0, startAngle |-> 0]
  /\ axes = <<>>
  /\ axesArg = <<>>
  /\ deltaArg = ZeroPoint
  /\ result = ZeroPoint
  /\ pc = "idle"

\* the mirror configuration changes; the axes computed for the old one are dropped
SetMirrorConfig(mc) ==
  /\ pc = "idle"
  /\ config' = mc
  /\ axes' = <<>>
  /\ pc' = "stale"
  /\ UNCHANGED <<axesArg, deltaArg, result>>

\* axes = calculateConstraintAxes(config)
CalculateAxes ==
  /\ pc = "stale"
  /\ axes' = axesTable[config]
  /\ pc' = "idle"
  /\ UNCHANGED <<config, axesArg, deltaArg, result>>

\* a drag starts with the axes list it will snap to: the computed one or its own
BeginDrag(ax) ==
  /\ pc = "idle"
  /\ axesArg' = ax
  /\ pc' = "dragging"
  /\ UNCHANGED <<config, axes, deltaArg, result>>

\* a pointer event arrives with the raw delta; the last snapped delta is dropped
PointerMove(d) ==
  /\ pc \in {"dragging", "moved"}
  /\ deltaArg' = d
  /\ result' = ZeroPoint
  /\ pc' = "pending"
  /\ UNCHANGED <<config, axes, axesArg>>

\* a variant of the call in which the function sorts the array it is passed
Constrain_sortsArgument ==
  /\ pc = "pending"
  /\ result' = constrainTable[<<deltaArg, axesArg>>]
  /\ axesArg' = sortAscending(axesArg)
  /\ pc' = "moved"
  /\ UNCHANGED <<config, axes, deltaArg>>

\* result = constrainToNearestAxis(deltaArg, axesArg)
Constrain ==
  /\ pc = "pending"
  /\ result' = constrainTable[<<deltaArg, axesArg>>]
  /\ pc' = "moved"
  /\ UNCHANGED <<config, axes, axesArg, deltaArg>>

\* the drag ends and its state is dropped
EndDrag ==
  /\ pc \in {"dragging", "moved"}
  /\ axesArg' = <<>>
  /\ deltaArg' = ZeroPoint
  /\ result' = ZeroPoint
  /\ pc' = "idle"
  /\ UNCHANGED <<config, axes>>

(***************************************************************************)
(* The program: its parts side by side.  Each specification runs one part  *)
(* and leaves the others as they were created.                             *)
(***************************************************************************)
vars ==
  <<solverVars, debugVars, gridVars, canvasVars, geometryVars, pathVars, menuVars>>

otherThanSolver == <<debugVars, gridVars, canvasVars, geometryVars, pathVars, menuVars>>
otherThanDebug == <<solverVars, gridVars, canvasVars, geometryVars, pathVars, menuVars>>
otherThanGrid == <<solverVars, debugVars, canvasVars, geometryVars, pathVars, menuVars>>
otherThanCanvas == <<solverVars, debugVars, gridVars, geometryVars, pathVars, menuVars>>
otherThanGeometry == <<solverVars, debugVars, gridVars, canvasVars, pathVars, menuVars>>
otherThanPath == <<solverVars, debugVars, gridVars, canvasVars, geometryVars, menuVars>>
\* the menus of the Toolbar call the actions of the debug store
otherThanMenu == <<solverVars, gridVars, canvasVars, geometryVars, pathVars>>

\* the whole program before anything has happened
InitAll == Init /\ DebugInit /\ GridInit /\ CanvasInit /\ GeometryInit
             /\ PathInit /\ MenuInit

\* the solver and its callers alone
SolverNext ==
  \/ (\E mc \in MirrorConfigs : SetMirrorConfig(mc)) /\ UNCHANGED otherThanSolver
  \/ CalculateAxes /\ UNCHANGED otherThanSolver
  \/ (\E ax \in AxesInputs \cup {axes} : BeginDrag(ax)) /\ UNCHANGED otherThanSolver
  \/ (\E d \in Deltas : PointerMove(d)) /\ UNCHANGED otherThanSolver
  \/ Constrain /\ UNCHANGED otherThanSolver
  \/ EndDrag /\ UNCHANGED otherThanSolver

Spec == InitAll /\ [][SolverNext]_vars

\* the debug store alone
DebugStoreNext ==
  \/ toggleTangentPoints /\ UNCHANGED otherThanDebug
  \/ toggleTangentLabels /\ UNCHANGED otherThanDebug
  \/ toggleArcAngles /\ UNCHANGED otherThanDebug
  \/ togglePathOrder /\ UNCHANGED otherThanDebug
  \/ toggleCircleCenters /\ UNCHANGED otherThanDebug
  \/ toggleGridCoords /\ UNCHANGED otherThanDebug
  \/ toggleArcDirection /\ UNCHANGED otherThanDebug
  \/ toggleMirrorPlaneNumbers /\ UNCHANGED otherThanDebug
  \/ togglePerformanceOverlay /\ UNCHANGED otherThanDebug
  \/ resetDebug /\ UNCHANGED otherThanDebug
  \/ toggleProfiling /\ UNCHANGED otherThanDebug
  \/ (\E enabled \in BOOLEAN : setProfilingEnabled(enabled)) /\ UNCHANGED otherThanDebug
  \/ clearProfilingData /\ UNCHANGED otherThanDebug
  \/ recordMeasure /\ UNCHANGED otherThanDebug
  \/ reloadPage /\ UNCHANGED otherThanDebug
  \/ rehydrate /\ UNCHANGED otherThanDebug

SpecDebug == InitAll /\ [][DebugStoreNext]_vars

\* the actions of the store a session can call, from a store just created
DebugActionsNext ==
  \/ toggleTangentPoints /\ UNCHANGED otherThanDebug
  \/ toggleTangentLabels /\ UNCHANGED otherThanDebug
  \/ toggleArcAngles /\ UNCHANGED otherThanDebug
  \/ togglePathOrder /\ UNCHANGED otherThanDebug
  \/ toggleCircleCenters /\ UNCHANGED otherThanDebug
  \/ toggleGridCoords /\ UNCHANGED otherThanDebug
  \/ toggleArcDirection /\ UNCHANGED otherThanDebug
  \/ toggleMirrorPlaneNumbers /\ UNCHANGED otherThanDebug
  \/ togglePerformanceOverlay /\ UNCHANGED otherThanDebug
  \/ resetDebug /\ UNCHANGED otherThanDebug
  \/ toggleProfiling /\ UNCHANGED otherThanDebug
  \/ (\E enabled \in BOOLEAN : setProfilingEnabled(enabled)) /\ UNCHANGED otherThanDebug

SpecDebugActions == InitAll /\ [][DebugActionsNext]_vars

\* the grid renderer alone
GridNext ==
  \/ (\E sp \in RevisitedSpacings, dotRadius \in DotRadii, rgb \in GridColors,
         patternCreated \in BOOLEAN :
        getTilePattern(sp, dotRadius, rgb, patternCreated)) /\ UNCHANGED otherThanGrid
  \/ (\E dotRadius \in DotRadii, rgb \in GridColors, patternCreated \in BOOLEAN :
        getTilePattern(nextSweepSpacing(tileCache, dotRadius, rgb), dotRadius, rgb,
                       patternCreated)) /\ UNCHANGED otherThanGrid
  \/ clearGridCache /\ UNCHANGED otherThanGrid
  \/ Tick /\ UNCHANGED otherThanGrid

SpecGrid == InitAll /\ [][GridNext]_vars

\* the canvas component alone
CanvasNext ==
  \/ RenderCurrent("none", "") /\ UNCHANGED otherThanCanvas
  \/ (\E throwAt \in {"clear", "renderPath", "renderGrid", "renderShapes"},
         errorMessage \in ErrorMessages :
        RenderCurrent(throwAt, errorMessage)) /\ UNCHANGED otherThanCanvas
  \/ RunAnimationFrame("none", "") /\ UNCHANGED otherThanCanvas
  \/ (\E throwAt \in {"clear", "renderPath", "renderGrid", "renderShapes"},
         errorMessage \in ErrorMessages :
        RunAnimationFrame(throwAt, errorMessage)) /\ UNCHANGED otherThanCanvas
  \/ ToggleShowGrid /\ UNCHANGED otherThanCanvas
  \/ ToggleIsolatePath /\ UNCHANGED otherThanCanvas
  \/ Unmount /\ UNCHANGED otherThanCanvas

SpecCanvas == InitAll /\ [][CanvasNext]_vars

\* the path geometry called on its own
GeometryNext ==
  \/ (\E c1, c2 \in CirclePool, counterclockwise \in BOOLEAN :
        CallSegmentFactory(c1, c2, counterclockwise)) /\ UNCHANGED otherThanGeometry
  \/ (\E circles \in ExpandInputs, mirror \in MirrorConfigs :
        CallExpand(circles, mirror)) /\ UNCHANGED otherThanGeometry
  \/ (\E document \in Documents, stretch \in Stretches,
         closed, useStart, useEnd \in BOOLEAN, mirror \in DocumentMirrors :
        CallComputeTangentHull(document.shapes, document.shapeOrder, stretch,
                               closed, useStart, useEnd, mirror))
       /\ UNCHANGED otherThanGeometry
  \/ DropResult /\ UNCHANGED otherThanGeometry

SpecGeometry == InitAll /\ [][GeometryNext]_vars

\* the document with PathInfo and the Toolbar
PathNext ==
  \/ (\E document \in Documents : loadDocument(document)) /\ UNCHANGED otherThanPath
  \/ (\E mirror \in DocumentMirrors : setDocumentMirrorConfig(mirror))
       /\ UNCHANGED otherThanPath
  \/ toggleClosedPath /\ UNCHANGED otherThanPath
  \/ toggleUseStartPoint /\ UNCHANGED otherThanPath
  \/ toggleUseEndPoint /\ UNCHANGED otherThanPath

SpecPath == InitAll /\ [][PathNext]_vars

\* the dropdown menus of the Toolbar, their effects and the events of the
\* document
MenuNext ==
  \/ (\E menu \in Menus : toggleMenu(menu)) /\ UNCHANGED otherThanMenu
  \/ (\E item \in FileItems : handleFileItem(item)) /\ UNCHANGED otherThanMenu
  \/ handleSetTheme /\ UNCHANGED otherThanMenu
  \/ handleToggleDebug(toggleTangentPoints, "toggleTangentPoints", FALSE)
       /\ UNCHANGED otherThanMenu
  \/ handleToggleDebug(toggleTangentLabels, "toggleTangentLabels", FALSE)
       /\ UNCHANGED otherThanMenu
  \/ handleToggleDebug(toggleArcAngles, "toggleArcAngles", FALSE)
       /\ UNCHANGED otherThanMenu
  \/ handleToggleDebug(togglePathOrder, "togglePathOrder", FALSE)
       /\ UNCHANGED otherThanMenu
  \/ handleToggleDebug(toggleCircleCenters, "toggleCircleCenters", FALSE)
       /\ UNCHANGED otherThanMenu
  \/ handleToggleDebug(toggleArcDirection, "toggleArcDirection", FALSE)
       /\ UNCHANGED otherThanMenu
  \/ handleToggleDebug(toggleProfiling, "toggleProfiling", FALSE)
       /\ UNCHANGED otherThanMenu
  \/ handleToggleDebug(togglePerformanceOverlay, "togglePerformanceOverlay",
                       ~debug["profilingEnabled"])
       /\ UNCHANGED otherThanMenu
  \/ handleToggleDebug(printProfilingReport, "printProfilingReport",
                       ~debug["profilingEnabled"])
       /\ UNCHANGED otherThanMenu
  \/ handleToggleDebug(clearProfilingData, "clearProfilingData",
                       ~debug["profilingEnabled"])
       /\ UNCHANGED otherThanMenu
  \/ handleToggleDebug(resetDebug, "resetDebug", FALSE) /\ UNCHANGED otherThanMenu
  \/ (\E target \in Menus \cup {"elsewhere"} : mouseDown(target))
       /\ UNCHANGED otherThanMenu
  \/ keyDownEscape /\ UNCHANGED otherThanMenu
  \/ (\E menu \in Menus : timerFires(menu)) /\ UNCHANGED otherThanMenu
  \/ rerenderToolbar /\ UNCHANGED otherThanMenu
  \/ unmountToolbar /\ UNCHANGED otherThanMenu
  \/ mountToolbar /\ UNCHANGED otherThanMenu

SpecToolbar == InitAll /\ [][MenuNext]_vars

(***************************************************************************)
(* Claims about calculateConstraintAxes.                                   *)
(***************************************************************************)
\* axes holds the list calculateConstraintAxes(config) returned
AxesComputed == axes # <<>>

Range(s) == {s[k] : k \in 1..Len(s)}

\* some entry of the returned list lies within the tolerance of the angle
Represented(angle) == \E e \in Range(axes) : Abs(e - angle) < tolerance

\* C1: with planeCount = 0 the returned list is exactly [0, pi/2], whatever
\* startAngle is
C1_NoSymmetryAxes ==
  (AxesComputed /\ config.planeCount = 0) => axes = <<0, PI \div 2>>

\* a call with planeCount = 0 and a startAngle other than 0 has returned
C1_Witness ==
  AxesComputed /\ config.planeCount = 0 /\ config.startAngle # 0

C3_CardinalAxesKept ==
  AxesComputed => (0 \in Range(axes) /\ (PI \div 2) \in Range(axes))

\* a call has returned where a plane and a bisector fall within the tolerance
\* of the two cardinal axes without being equal to them
C3_Witness ==
  /\ AxesComputed
  /\ config.planeCount = 1
  /\ config.startAngle = 5
  /\ axes = <<0, PI \div 2>>

\* C4: every angle of the returned list lies in [0, pi)
C4_AxesInHalfOpenRange ==
  AxesComputed => \A k \in 1..Len(axes) : 0 <= axes[k] /\ axes[k] < PI

\* C5: the returned list is ascending, each entry at least the tolerance above
\* its predecessor
C5_SortedAndSpaced ==
  AxesComputed =>
    \A k \in 1..(Len(axes) - 1) : axes[k + 1] - axes[k] >= tolerance

\* a call has returned a list of more than two entries from an array that held
\* entries to drop and entries out of order
C5_Witness ==
  /\ AxesComputed
  /\ config.planeCount > 1
  /\ Len(axes) > 2
  /\ Len(axes) < 2 + 2 * config.planeCount
  /\ config.startAngle < 0

\* C25: the returned axes are distinct as lines: for any two entries a < b of
\* the returned list both b - a and pi - (b - a) are at least the tolerance,
\* for every planeCount and startAngle, also across the seam between 0 and pi
C25_DistinctAsLines ==
  AxesComputed =>
    \A j \in 1..Len(axes) : \A k \in 1..Len(axes) :
      axes[j] < axes[k] =>
        /\ axes[k] - axes[j] >= tolerance
        /\ PI - (axes[k] - axes[j]) >= tolerance

(***************************************************************************)
(* Claims about constrainToNearestAxis.                                    *)
(***************************************************************************)
\* constrainToNearestAxis(deltaArg, axesArg) has returned into result
Constrained == pc = "moved"

\* the call was one with a non-zero delta and a non-empty list of axes
Projected == Constrained /\ deltaArg # ZeroPoint /\ axesArg # <<>>

\* the direction of deltaArg, in (-pi, pi]
movementAngleOfDelta == MathAtan2(deltaArg.y, deltaArg.x)

\* the axis the call projected onto
chosenAxis ==
  findClosestAxis(normalizeMovementAngle(movementAngleOfDelta), axesArg)

Dot(p, q) == p.x * q.x + p.y * q.y

Cross(p, q) == p.x * q.y - p.y * q.x

NormSq(p) == Dot(p, p)

\* the unit vector of an angle, in units of 1 / TrigScale
Dir(angle) == Point(MathCos(angle), MathSin(angle))

\* two points that differ by no more than two rounding steps per coordinate:
\* the code rounds each product, and axis + pi, once
NearPoint(p, q) == Abs(p.x - q.x) <= 2 /\ Abs(p.y - q.y) <= 2

\* (|p| + 1)^2 - |p|^2: what one rounding step of length adds to the square
LengthSlack(p) == 2 * MathSqrt(NormSq(p)) + 1

\* (delta . dir) dir, each product rounded once
Projection(delta, angle) ==
  LET dir == Dir(angle)
      along == RoundDiv(Dot(delta, dir), TrigScale)
  IN Point(RoundDiv(along * dir.x, TrigScale), RoundDiv(along * dir.y, TrigScale))

\* the distance between two directions as lines, that is modulo pi
LineDist(u, v) ==
  LET d == Abs(u - v) % PI
  IN IF d <= PI - d THEN d ELSE PI - d

\* the first index of axesArg at the least distance from the direction of deltaArg
FirstNearestIndex ==
  CHOOSE j \in 1..Len(axesArg) :
    /\ \A k \in 1..Len(axesArg) :
         LineDist(movementAngleOfDelta, axesArg[j])
           <= LineDist(movementAngleOfDelta, axesArg[k])
    /\ \A k \in 1..(j - 1) :
         LineDist(movementAngleOfDelta, axesArg[j])
           < LineDist(movementAngleOfDelta, axesArg[k])

\* C6: a zero delta is returned unchanged, for any list of axes, the empty
\* list included
C6_ZeroDeltaUnchanged ==
  (Constrained /\ deltaArg = ZeroPoint) => result = deltaArg

\* a call with the zero delta and the empty list has returned
C6_Witness ==
  Constrained /\ deltaArg = ZeroPoint /\ axesArg = <<>> /\ result = ZeroPoint

\* C7: for a non-zero delta and a non-empty list the result is, to rounding,
\* the orthogonal projection (delta . dir) dir onto the chosen axis: it lies
\* on the axis line, delta minus the result is perpendicular to the axis,
\* projecting onto axis + pi gives the same point, and (3, 4) with axes [0]
\* gives exactly (3, 0)
C7_OrthogonalProjection ==
  Projected =>
    LET dir == Dir(chosenAxis)
    IN /\ NearPoint(result, Projection(deltaArg, chosenAxis))
       /\ Abs(Cross(result, dir)) <= 2 * TrigScale
       /\ Abs(Dot(Point(deltaArg.x - result.x, deltaArg.y - result.y), dir))
            <= 2 * TrigScale
       /\ NearPoint(result, Projection(deltaArg, chosenAxis + PI))
       /\ NearPoint(result, projectOntoAxis(deltaArg, Add(chosenAxis, PI)))
       /\ (deltaArg = Point(3 * CoordScale, 4 * CoordScale) /\ axesArg = <<0>>)
            => result = Point(3 * CoordScale, 0)

\* a call has projected a delta that lies on no axis of the list onto an axis
\* that is not a coordinate axis
C7_Witness ==
  /\ Projected
  /\ chosenAxis = PI \div 4
  /\ deltaArg = Point(MaxDelta * CoordScale, CoordScale)
  /\ Abs(result.x - result.y) <= 2
  /\ result.x > CoordScale
  /\ result.x < MaxDelta * CoordScale

\* every axis of the list passed lies in [0, pi)
AxesInRange == \A k \in 1..Len(axesArg) : 0 <= axesArg[k] /\ axesArg[k] < PI

\* C8: for a non-zero delta and a non-empty list of axes in [0, pi) the axis
\* projected onto is the first of the list at the least distance, modulo pi,
\* from the direction of delta; a delta that points just below pi snaps to
\* axis 0, and of two axes at the same distance the earlier is used
C8_NearestAxisModuloPi ==
  (Projected /\ AxesInRange) =>
    /\ chosenAxis = axesArg[FirstNearestIndex]
    /\ result = projectOntoAxis(deltaArg, axesArg[FirstNearestIndex])
    /\ (deltaArg = Point(-MaxDelta * CoordScale, 1) /\ axesArg = <<PI \div 2, 0>>)
         => (chosenAxis = 0 /\ result = Point(-MaxDelta * CoordScale, 0))
    /\ (deltaArg = Point(CoordScale, CoordScale) /\ axesArg = <<PI \div 2, 0>>)
         => (chosenAxis = PI \div 2 /\ result = Point(0, CoordScale))

\* a call has snapped across the seam to the second axis of the list, which is
\* nearer modulo pi than the first although its direct difference is larger
C8_Witness ==
  /\ Projected
  /\ axesArg = <<PI \div 2, 0>>
  /\ deltaArg = Point(-MaxDelta * CoordScale, 1)
  /\ LineDist(movementAngleOfDelta, 0) < Abs(movementAngleOfDelta - PI \div 2)
  /\ Abs(movementAngleOfDelta - PI \div 2) < Abs(movementAngleOfDelta - 0)
  /\ result.y = 0

\* the distance of deltaArg from the line of the chosen axis
offAxis == RoundDiv(Abs(Cross(deltaArg, Dir(chosenAxis))), TrigScale)

\* C9: the result is, to rounding, never longer than delta: it is shorter by
\* the part of delta off the chosen axis line (|delta|^2 - |result|^2 is the
\* squared distance of delta from the line), so as long as delta only when
\* delta lies on the line; on the coordinate axes, where sine and cosine are
\* exact, both hold exactly
C9_NeverLonger ==
  (Constrained /\ axesArg # <<>>) =>
    /\ NormSq(result) <= NormSq(deltaArg) + LengthSlack(deltaArg)
    /\ Abs(NormSq(deltaArg) - NormSq(result) - offAxis * offAxis)
         <= 2 * LengthSlack(deltaArg)
    /\ chosenAxis \in {0, PI \div 2} =>
         /\ NormSq(result) <= NormSq(deltaArg)
         /\ NormSq(result) = NormSq(deltaArg)
              <=> Cross(deltaArg, Dir(chosenAxis)) = 0

\* a call has returned a point strictly shorter than a delta off the axis line
C9_Witness ==
  /\ Projected
  /\ deltaArg = Point(3 * CoordScale, 4 * CoordScale)
  /\ axesArg = <<PI \div 4>>
  /\ offAxis > 0
  /\ NormSq(result) < NormSq(deltaArg)

C19_ResetDebug ==
  [][debugCall' = "resetDebug" =>
       /\ \A f \in DebugFlags : debug'[f] = FALSE
       /\ profilerEnabled' = FALSE
       /\ profilingData' = 0]_vars

\* resetDebug has run and left nothing switched on
C19_Witness ==
  /\ debugCall = "resetDebug"
  /\ debug = defaultDebugState
  /\ ~profilerEnabled
  /\ profilingData = 0

\* C20: the storage holds the eight visibility flags and nothing else, and
\* rehydrating gives every visibility flag its stored value and leaves
\* profilingEnabled and showPerformanceOverlay false, whatever they were before
C20_OnlyVisibilityPersisted ==
  [][/\ DOMAIN storage' = VisibilityFlags
     /\ debugCall' = "rehydrate" =>
          /\ \A f \in VisibilityFlags : debug'[f] = storage[f]
          /\ debug'["profilingEnabled"] = FALSE
          /\ debug'["showPerformanceOverlay"] = FALSE]_vars

\* the store was rehydrated in a session in which profiling had been switched
\* on, with a visibility flag stored as true
C20_Witness ==
  /\ debugCall = "rehydrate"
  /\ profilerEnabled
  /\ debug["showArcAngles"]
  /\ ~debug["profilingEnabled"]

\* C23: from a store whose profiler is disabled, after any sequence of
\* toggleProfiling, setProfilingEnabled, togglePerformanceOverlay, the
\* visibility toggles and resetDebug the profiler is enabled exactly when the
\* flag profilingEnabled of the store is true
C23_ProfilerFollowsFlag == profilerEnabled <=> debug["profilingEnabled"]

\* profiling was switched on, and the overlay was toggled on after that
C23_Witness ==
  /\ debugCall = "toggle"
  /\ debug["showPerformanceOverlay"]
  /\ debug["profilingEnabled"]
  /\ profilerEnabled

(***************************************************************************)
(* Claims about the grid renderer's tile cache.                            *)
(***************************************************************************)
\* the keys of the entries of a cache
keysOf(cache) == {cache[i].key : i \in 1..Len(cache)}

\* the indices of the entries of the cache that the step removes
removedByStep == {i \in 1..Len(tileCache) : tileCache[i].key \notin keysOf(tileCache')}

\* C18: the tile cache never holds more than MAX_CACHE_SIZE entries, before or
\* after any call of getTilePattern or clearGridCache; a call that misses and
\* finds MAX_CACHE_SIZE entries or more removes half of them, none of the
\* removed used later than one that is kept, and then inserts the new tile
\* with the current time; a call that hits sets lastUsed of the entry found to
\* the current time and changes nothing else in the cache.
C18_TileCacheBounded ==
  [][/\ Len(tileCache) <= MAX_CACHE_SIZE
     /\ Len(tileCache') <= MAX_CACHE_SIZE
     /\ now' = now /\ gridCall'.op = "miss" /\ Len(tileCache) >= MAX_CACHE_SIZE =>
          /\ 2 * Cardinality(removedByStep) = Len(tileCache)
          /\ \A i \in removedByStep : \A j \in (1..Len(tileCache)) \ removedByStep :
               tileCache[i].lastUsed <= tileCache[j].lastUsed
          /\ Len(tileCache') = Len(tileCache) - Cardinality(removedByStep) + 1
          /\ tileCache'[Len(tileCache')] = [key |-> gridCall'.key, lastUsed |-> now]
     /\ now' = now /\ gridCall'.op = "hit" =>
          \E i \in 1..Len(tileCache) :
            /\ tileCache[i].key = gridCall'.key
            /\ tileCache' = [tileCache EXCEPT ![i].lastUsed = now]]_vars

\* a miss has just found the cache full, removed the older half and inserted
\* its tile; the tile of the revisited level, the first inserted, was kept
\* because a hit had refreshed it
C18_Witness ==
  /\ gridCall.op = "miss"
  /\ Len(tileCache) = MAX_CACHE_SIZE \div 2 + 1
  /\ tileCache[1].key = cacheKey(4 * CoordScale, 1500, <<42, 42, 42>>)
  /\ tileCache[1].lastUsed > tileCache[2].lastUsed
  /\ tileCache[2].key[1] > MAX_CACHE_SIZE \div 2 + 4

(***************************************************************************)
(* Claims about the canvas component's render.                             *)
(***************************************************************************)
\* a step that is a call of render which found its canvas
RenderStep ==
  /\ showGrid' = showGrid
  /\ isolatePath' = isolatePath
  /\ canvasRef' = canvasRef
  /\ renderCall'.outcome \in {"done", "isolated", "threw"}

\* C16: a render that found its canvas calls reportError exactly when it
\* threw and the message differs from the remembered one; whenever a render
\* has thrown, reportError has been called exactly once in the run of
\* consecutive renders that threw that message, and the message is
\* remembered; after a render that did not throw, isolated or not, nothing is
\* remembered, so that the message is reported again when it recurs.
C16_ReportOncePerRun ==
  [][RenderStep =>
       /\ renderCall'.reported <=>
            /\ renderCall'.outcome = "threw"
            /\ lastRenderErrorRef # renderCall'.message
       /\ renderCall'.outcome = "threw" =>
            /\ runReports' = 1
            /\ lastRenderErrorRef' = renderCall'.message
       /\ renderCall'.outcome \in {"done", "isolated"} =>
            /\ lastRenderErrorRef' = {}
            /\ runReports' = 0
       /\ renderCall.outcome \in {"done", "isolated"} /\ renderCall'.outcome = "threw" =>
            renderCall'.reported]_vars

\* the second render of a run has thrown the message of the first and has not
\* reported it
C16_Witness ==
  /\ renderCall.outcome = "threw"
  /\ ~renderCall.reported
  /\ renderCall.message = {"radius"}
  /\ runReports = 1

C22_ContextBalanced ==
  [][/\ Len(ctx'.stack) = Len(ctx.stack)
     /\ ctx'.transform = ctx.transform]_vars

(***************************************************************************)
(* Claims about the path geometry and about the path mode.                 *)
(***************************************************************************)
\* the vector from p to q
Between(p, q) == Point(q.x - p.x, q.y - p.y)

\* a coordinate pair of numbers
IsFinitePoint(p) == p.x \in Int /\ p.y \in Int /\ p.x # NaN /\ p.y # NaN

\* a point at a circle's radius from its center, up to two rounding steps
OnCircle(p, circle) ==
  Abs(MathSqrt(NormSq(Between(circle.center, p))) - circle.radius) <= 2

\* C14: SegmentFactory returns the degenerate marker exactly when the
\* distance of the centers is at most |r1 - r2| (compared here on the
\* squares, without a square root), the marker carries no coordinates, and
\* for every other pair it returns two tangent points with numbers for
\* coordinates, each at its circle's radius from that circle's center.
C14_DegenerateMarker ==
  geometryCall.op = "SegmentFactory" =>
    LET c1 == geometryCall.c1
        c2 == geometryCall.c2
        returned == geometryCall.result
        dr == c1.radius - c2.radius
    IN  /\ returned.degenerate = (NormSq(Between(c1.center, c2.center)) <= dr * dr)
        /\ returned.degenerate => DOMAIN returned = {"degenerate"}
        /\ ~returned.degenerate =>
             /\ IsFinitePoint(returned.start) /\ IsFinitePoint(returned.end)
             /\ OnCircle(returned.start, c1)
             /\ OnCircle(returned.end, c2)

\* a call with a circle that touches the other from within, d = |r1 - r2| > 0,
\* which returned the marker
C14_Witness ==
  /\ geometryCall.op = "SegmentFactory"
  /\ geometryCall.c1.center # geometryCall.c2.center
  /\ NormSq(Between(geometryCall.c1.center, geometryCall.c2.center))
       = (geometryCall.c1.radius - geometryCall.c2.radius)
           * (geometryCall.c1.radius - geometryCall.c2.radius)
  /\ geometryCall.result.degenerate

\* C15: the path mode PathInfo shows is "closed" whenever closedPath is set,
\* whatever the end flags, and otherwise "both-arcs", "left-arc",
\* "right-arc" or "tangent" for the end flags (start, end) = (set, set),
\* (set, clear), (clear, set), (clear, clear); the start and the end toggle
\* of the Toolbar are disabled exactly when closedPath is set.
C15_PathModeTotal ==
  /\ closedPath => pathInfoView.pathMode = "closed"
  /\ ~closedPath /\ useStartPoint /\ useEndPoint => pathInfoView.pathMode = "both-arcs"
  /\ ~closedPath /\ useStartPoint /\ ~useEndPoint => pathInfoView.pathMode = "left-arc"
  /\ ~closedPath /\ ~useStartPoint /\ useEndPoint => pathInfoView.pathMode = "right-arc"
  /\ ~closedPath /\ ~useStartPoint /\ ~useEndPoint => pathInfoView.pathMode = "tangent"
  /\ toolbarView.startDisabled = closedPath
  /\ toolbarView.endDisabled = closedPath

\* a closed path whose end flags differ, shown as closed with both toggles
\* disabled
C15_Witness ==
  /\ closedPath /\ useStartPoint /\ ~useEndPoint
  /\ pathInfoView.pathMode = "closed"
  /\ toolbarView.startDisabled /\ toolbarView.endDisabled

\* q is p reflected across the line through the origin at an angle: the
\* middle of p and q lies on the line and q - p is normal to it, up to 8
\* units of rounding
IsReflectionOf(q, p, angle) ==
  LET u == unitVector(angle)
  IN  /\ Abs((p.x + q.x) * u[2] - (p.y + q.y) * u[1]) <= 8 * TrigScale
      /\ Abs((q.x - p.x) * u[1] + (q.y - p.y) * u[2]) <= 8 * TrigScale

\* q is p turned about the origin by an angle: p . q = |p|^2 cos and
\* p x q = |p|^2 sin, up to rounding
IsRotationOf(q, p, angle) ==
  LET u == unitVector(angle)
      n == NormSq(p) \div CoordScale
  IN  /\ Abs((Dot(p, q) \div CoordScale) * TrigScale - n * u[1]) <= 60 * TrigScale
      /\ Abs((Cross(p, q) \div CoordScale) * TrigScale - n * u[2]) <= 60 * TrigScale

\* the angle of plane i of N planes, and the turn by j times 2 pi / N
PlaneLine(mirror, i) == mirror.startAngle + (i * PI) \div mirror.planeCount

TurnOf(mirror, j) == (2 * j * PI) \div mirror.planeCount

\* a call of expand with one circle flagged mirrored and N >= 1 planes
MirroredCall ==
  /\ geometryCall.op = "expand"
  /\ Len(geometryCall.circles) = 1
  /\ geometryCall.circles[1].mirrored
  /\ geometryCall.mirror.planeCount >= 1

RECURSIVE Remaining(_, _, _)
Remaining(circles, order, N) ==
  IF order = <<>> THEN 0
  ELSE LET found == {i \in 1..Len(circles) : circles[i].id = Head(order)}
           count(i) == IF circles[i].mirrored /\ N >= 1 THEN 2 * N ELSE 1
       IN  (IF found = {} THEN 0
            ELSE IF Cardinality(found) = 1 THEN count(CHOOSE i \in found : TRUE)
            ELSE Cardinality(found))
           + Remaining(circles, Tail(order), N)

\* the ends of a segment; those of an arc are the points of its circle at
\* its two angles
StartOf(segment) ==
  IF segment.type = "arc"
    THEN pointOnCircle(segment.center, segment.radius, segment.startAngle)
    ELSE segment.start

EndOf(segment) ==
  IF segment.type = "arc"
    THEN pointOnCircle(segment.center, segment.radius, segment.endAngle)
    ELSE segment.end

\* the ids of a call's order that no circle of the call has
UnknownIds(call) ==
  {call.order[i] : i \in 1..Len(call.order)}
    \ {call.circles[i].id : i \in 1..Len(call.circles)}

\* C11: computeTangentHull returns a PathData, and one with no segments
\* whenever fewer than 2 circles remain after the mirror expansion and after
\* the ids of order without a circle are dropped; such ids leave no trace in
\* the result.
C11_NothingToDraw ==
  geometryCall.op = "computeTangentHull" =>
    /\ DOMAIN geometryCall.result = {"segments"}
    /\ Remaining(geometryCall.circles, geometryCall.order,
                 geometryCall.mirror.planeCount) < 2
         => geometryCall.result.segments = <<>>
    /\ \A i \in 1..Len(geometryCall.result.segments) :
         /\ IsFinitePoint(StartOf(geometryCall.result.segments[i]))
         /\ IsFinitePoint(EndOf(geometryCall.result.segments[i]))

\* two circles and an order that names one of them and an id no circle has:
\* one circle remains and nothing is drawn
C11_Witness ==
  /\ geometryCall.op = "computeTangentHull"
  /\ Len(geometryCall.circles) = 2
  /\ UnknownIds(geometryCall) # {}
  /\ Remaining(geometryCall.circles, geometryCall.order,
               geometryCall.mirror.planeCount) = 1
  /\ geometryCall.result.segments = <<>>

\* C12: in every output of computeTangentHull the end of each segment is
\* the start of the next, up to two rounding steps per coordinate, and on a
\* closed path the end of the last segment is the start of the first.
C12_C0Continuous ==
  geometryCall.op = "computeTangentHull" =>
    LET segments == geometryCall.result.segments
    IN  /\ \A i \in 1..(Len(segments) - 1) :
             NearPoint(EndOf(segments[i]), StartOf(segments[i + 1]))
        /\ geometryCall.closed /\ segments # <<>> =>
             NearPoint(EndOf(segments[Len(segments)]), StartOf(segments[1]))

\* a closed path round a mirrored circle's images and another circle, off
\* the origin: lines and arcs, six segments or more
C12_Witness ==
  /\ geometryCall.op = "computeTangentHull"
  /\ geometryCall.closed
  /\ geometryCall.mirror.planeCount >= 1
  /\ Len(geometryCall.result.segments) >= 6
  /\ \E i \in 1..Len(geometryCall.result.segments) :
       /\ geometryCall.result.segments[i].type = "arc"
       /\ geometryCall.result.segments[i].center # ZeroPoint

(***************************************************************************)
(* Claims about the dropdown menus of the Toolbar.                         *)
(***************************************************************************)
\* the menus rendered open
openMenus == {m \in Menus : menuEffects[m].isOpen}

\* the handlers of the menu items
ItemHandlers ==
  FileItems \cup
  {"handleSetTheme", "toggleTangentPoints", "toggleTangentLabels",
   "toggleArcAngles", "togglePathOrder", "toggleCircleCenters",
   "toggleArcDirection", "toggleProfiling", "togglePerformanceOverlay",
   "printProfilingReport", "clearProfilingData", "resetDebug"}

\* C21: at most one of the menus file, theme and debug is open at any time;
\* toggleMenu opens a menu that is not the open one, which closes any other,
\* and closes the menu that is open; every menu item leaves no menu open
C21_OneMenuOpen ==
  [][/\ Cardinality(openMenus') <= 1
     /\ openMenus' = openMenu'
     /\ menuCall'.op = "toggleMenu" =>
          \A menu \in menuCall'.menus :
            /\ openMenu # {menu} => openMenu' = {menu}
            /\ openMenu = {menu} => openMenu' = {}
     /\ menuCall'.op \in ItemHandlers => openMenu' = {}]_vars

\* the button of a menu was clicked while another menu was open
C21_Witness ==
  /\ menuCall.op = "toggleMenu"
  /\ menuCall.menus = {"theme"}
  /\ menuCall.wasOpen = {"debug"}
  /\ openMenus = {"theme"}

\* C24: the mousedown listener of a DropdownMenu is registered on the
\* document only while the menu is open, however opening, the timer that
\* registers the listener, closing and unmounting interleave, also when the
\* menu is closed before the timer has run; an outside click or the Escape
\* key never calls onClose for a menu that is closed
C24_ListenerOnlyWhileOpen ==
  /\ \A m \in Menus :
       menuEffects[m].mousedown => (toolbarMounted /\ menuEffects[m].isOpen)
  /\ menuCall.op \in {"handleClickOutside", "handleKeyDown"} =>
       (menuCall.menus # {} /\ menuCall.menus \subseteq menuCall.wasOpen)

\* a menu was opened and closed again before its timer had run, and is
\* closed with no timer waiting
C24_Witness ==
  /\ menuCall.op = "toggleMenu"
  /\ menuCall.menus = {"file"}
  /\ menuCall.wasOpen = {"file"}
  /\ menuCall.timers = {"file"}
  /\ menuEffects["file"] = closedMenu
  /\ toolbarMounted

====
